---- MODULE Spec2Model ----
(***************************************************************************)
(* Issue service of satyaki-up/issuetracker: the transactional operations  *)
(* CreateIssue, TransitionState, SetParent and SetBlockedBy over the       *)
(* issues table.  Strings are sequences of one-character strings, so that  *)
(* trimming, lowercasing, formatting and the two regular expressions are   *)
(* computed as the code computes them.  Optional values (parent_id,        *)
(* closed_at, *int64 expected version, *string parent argument) are        *)
(* sequences of length 0 (absent) or 1 (present).                          *)
(***************************************************************************)
EXTENDS Integers, Sequences, FiniteSets, TLC

\* ------------------------------------------------------------------ bounds
\* number of distinct values randomIssueNumber may return (900000 in the code)
RandSpan == 3
\* largest number of committed writes of a behaviour that starts with the empty table
MaxWrites == 3
\* largest number of committed writes of a behaviour that starts with a populated table
MaxSeedWrites == 1
\* CURRENT_TIMESTAMP ranges over 0..MaxClock
MaxClock == 1

\* ------------------------------------------------------- program constants
maxCreateAttempts == 8
RandBase == 100000

\* ------------------------------------------------------------------ strings
LowerAlnum == {"a", "b", "0", "1", "2", "3", "4", "5", "6", "7", "8", "9"}
DigitChars == {"0", "1", "2", "3", "4", "5", "6", "7", "8", "9"}

ToLowerChar(c) == CASE c = "A" -> "a" [] c = "B" -> "b" [] OTHER -> c

ToLower(s) == [i \in 1..Len(s) |-> ToLowerChar(s[i])]

\* strings.TrimSpace: the part of s from its first to its last non-space character
RECURSIVE FirstNonSpace(_, _)
FirstNonSpace(s, i) == IF i > Len(s) \/ s[i] # " " THEN i ELSE FirstNonSpace(s, i + 1)

RECURSIVE LastNonSpace(_, _)
LastNonSpace(s, i) == IF i < 1 \/ s[i] # " " THEN i ELSE LastNonSpace(s, i - 1)

TrimSpace(s) == SubSeq(s, FirstNonSpace(s, 1), LastNonSpace(s, Len(s)))

DigitChar(d) == <<"0", "1", "2", "3", "4", "5", "6", "7", "8", "9">>[d + 1]

\* fmt "%d" of a non-negative number
RECURSIVE FormatInt(_)
FormatInt(n) == IF n < 10 THEN <<DigitChar(n)>> ELSE FormatInt(n \div 10) \o <<DigitChar(n % 10)>>

\* fmt.Sprintf("%s-%d", projectPrefix, number)
SprintfID(prefix, number) == prefix \o <<"-">> \o FormatInt(number)

\* ^[a-z0-9]{3}$
projectPrefixRe(s) == Len(s) = 3 /\ \A i \in 1..3 : s[i] \in LowerAlnum

\* ^[a-z0-9]{3}-[0-9]+$
issueIDRe(s) ==
    /\ Len(s) >= 5
    /\ \A i \in 1..3 : s[i] \in LowerAlnum
    /\ s[4] = "-"
    /\ \A i \in 5..Len(s) : s[i] \in DigitChars

\* position of the first "-" of s, 0 when there is none
RECURSIVE IndexDash(_, _)
IndexDash(s, i) == IF i > Len(s) THEN 0 ELSE IF s[i] = "-" THEN i ELSE IndexDash(s, i + 1)

\* returns <<prefix, ok>>
projectPrefixFromIssueID(id) ==
    LET t == ToLower(TrimSpace(id))
        d == IndexDash(t, 1)
    IN  IF d = 0 THEN <<<<>>, FALSE>>
        ELSE IF ~projectPrefixRe(SubSeq(t, 1, d - 1)) THEN <<<<>>, FALSE>>
        ELSE <<SubSeq(t, 1, d - 1), TRUE>>

\* ------------------------------------------------------------ enumerations
StateTodo == "todo"
StateInProgress == "in_progress"
StateBlocked == "blocked"
StateDone == "done"
StateCanceled == "canceled"

CategoryTask == "task"
CategoryWorkstream == "workstream"
CategoryProject == "project"

ErrNone == "ok"
ErrInvalidInput == "invalid input"
ErrNotFound == "not found"
ErrConflict == "conflict"
ErrInvalidStateTransition == "invalid state transition"
\* the error of the database that none of the kinds above wraps
ErrBusy == "database is locked"
\* what the caller of a process sees that was killed inside a call
ErrKilled == "signal: killed"

validTransitions ==
    [s \in {StateTodo, StateInProgress, StateBlocked, StateDone, StateCanceled} |->
        CASE s = StateTodo -> {StateInProgress, StateBlocked, StateCanceled}
          [] s = StateInProgress -> {StateBlocked, StateDone, StateTodo, StateCanceled}
          [] s = StateBlocked -> {StateTodo, StateInProgress, StateCanceled}
          [] s = StateDone -> {StateTodo}
          [] s = StateCanceled -> {StateTodo}]

IsValidState(s) == s \in DOMAIN validTransitions

\* ValidateTransition without the edge done -> todo
ValidateTransitionNoReopen(from, to) ==
    IF from = to THEN ErrNone
    ELSE IF from \notin DOMAIN validTransitions \/ from = StateDone
              \/ to \notin validTransitions[from]
         THEN ErrInvalidStateTransition
         ELSE ErrNone

\* ValidateTransition with the edge todo -> done
ValidateTransitionTodoDone(from, to) ==
    IF from = to \/ (from = StateTodo /\ to = StateDone) THEN ErrNone
    ELSE IF from \notin DOMAIN validTransitions \/ to \notin validTransitions[from]
         THEN ErrInvalidStateTransition
         ELSE ErrNone

\* the error ValidateTransition returns (ErrNone for nil)
ValidateTransition(from, to) ==
    IF from = to THEN ErrNone
    ELSE IF from \notin DOMAIN validTransitions \/ to \notin validTransitions[from]
         THEN ErrInvalidStateTransition
         ELSE ErrNone

\* IsValidCategory that accepts every category
IsValidCategoryAny(c) == TRUE

IsValidCategory(c) == c \in {CategoryTask, CategoryWorkstream, CategoryProject}

\* expectedParentCategory with a task under a task and a workstream under a
\* workstream
expectedParentCategoryOwn(c) ==
    CASE c = CategoryTask -> <<CategoryTask, TRUE>>
      [] c = CategoryWorkstream -> <<CategoryWorkstream, TRUE>>
      [] c = CategoryProject -> <<"", FALSE>>
      [] OTHER -> <<"", FALSE>>

\* expectedParentCategory with a task under a project
expectedParentCategoryFlat(c) ==
    CASE c = CategoryTask -> <<CategoryProject, TRUE>>
      [] c = CategoryWorkstream -> <<CategoryProject, TRUE>>
      [] c = CategoryProject -> <<"", FALSE>>
      [] OTHER -> <<"", FALSE>>

\* returns <<required parent category, needsParent>>
expectedParentCategory(c) ==
    CASE c = CategoryTask -> <<CategoryWorkstream, TRUE>>
      [] c = CategoryWorkstream -> <<CategoryProject, TRUE>>
      [] c = CategoryProject -> <<"", FALSE>>
      [] OTHER -> <<"", FALSE>>

None == <<>>
Some(x) == <<x>>

\* the code of a character of an id, a prefix or a LIKE pattern
Ascii(c) ==
    CASE c = " " -> 32 [] c = "%" -> 37 [] c = "-" -> 45
      [] c \in DigitChars -> 48 + (CHOOSE d \in 0..9 : DigitChar(d) = c)
      [] c = "A" -> 65 [] c = "B" -> 66 [] c = "_" -> 95
      [] c = "a" -> 97 [] c = "b" -> 98
      [] OTHER -> 122

\* a < b in the BINARY collation of the id column
RECURSIVE IDLess(_, _)
IDLess(a, b) ==
    IF b = <<>> THEN FALSE
    ELSE IF a = <<>> THEN TRUE
    ELSE IF Ascii(Head(a)) # Ascii(Head(b)) THEN Ascii(Head(a)) < Ascii(Head(b))
    ELSE IDLess(Tail(a), Tail(b))

\* -------------------------------------------------------------- row access
\* a SELECT whose sql.ErrNoRows is not looked at: the zero Issue for a missing row
getIssueByIDTxLoose(st, id) ==
    IF id \notin DOMAIN st
    THEN <<ErrNone,
           [ID |-> <<>>, Category |-> "", Title |-> <<>>, Body |-> <<>>, State |-> "",
            ParentID |-> <<>>, Version |-> 0, BlockedBy |-> <<>>, CreatedAt |-> 0,
            LastUpdatedAt |-> 0, ClosedAt |-> <<>>]>>
    ELSE LET r == st[id]
         IN  <<ErrNone,
               [ID |-> id,
                Category |-> r.category,
                Title |-> r.title,
                Body |-> r.body,
                State |-> r.state,
                ParentID |-> r.parent_id,
                Version |-> r.version,
                BlockedBy |-> r.blocked_by,
                CreatedAt |-> r.created_at,
                LastUpdatedAt |-> r.last_updated_at,
                ClosedAt |-> r.closed_at]>>

\* SELECT ... WHERE id = ? followed by scanIssue: <<error, issue>>
getIssueByIDTx(st, id) ==
    IF id \notin DOMAIN st THEN <<ErrNotFound, [ID |-> id]>>
    ELSE LET r == st[id]
         IN  <<ErrNone,
               [ID |-> id,
                Category |-> r.category,
                Title |-> r.title,
                Body |-> r.body,
                State |-> r.state,
                ParentID |-> r.parent_id,
                Version |-> r.version,
                BlockedBy |-> r.blocked_by,
                CreatedAt |-> r.created_at,
                LastUpdatedAt |-> r.last_updated_at,
                ClosedAt |-> r.closed_at]>>

\* scanIssue that leaves issue.ProjectPrefix empty
ProjectPrefixOfNone(id) == <<>>

\* issue.ProjectPrefix as scanIssue sets it from the id of the row
ProjectPrefixOf(id) ==
    LET p == projectPrefixFromIssueID(id) IN IF p[2] THEN p[1] ELSE <<>>

\* unresolvedBlockedByTx that reports no dependency as unresolved
unresolvedBlockedByTxNone(st, blockedBy) ==
    IF \E i \in 1..Len(blockedBy) : getIssueByIDTx(st, blockedBy[i])[1] # ErrNone
    THEN <<ErrNotFound, <<>>>>
    ELSE <<ErrNone, <<>>>>

\* unresolvedBlockedByTx that takes a canceled dependency for a resolved one
RECURSIVE unresolvedBlockedByTxOpen(_, _)
unresolvedBlockedByTxOpen(st, blockedBy) ==
    IF blockedBy = <<>> THEN <<ErrNone, <<>>>>
    ELSE LET dep == getIssueByIDTx(st, Head(blockedBy))
         IN  IF dep[1] # ErrNone THEN <<ErrNotFound, <<>>>>
             ELSE LET rest == unresolvedBlockedByTxOpen(st, Tail(blockedBy))
                  IN  IF rest[1] # ErrNone THEN rest
                      ELSE IF dep[2].State \notin {StateDone, StateCanceled}
                           THEN <<ErrNone, <<dep[2].ID>> \o rest[2]>>
                           ELSE rest

\* the ids of issue.BlockedBy whose row is not done, in order: <<error, ids>>
RECURSIVE unresolvedBlockedByTx(_, _)
unresolvedBlockedByTx(st, blockedBy) ==
    IF blockedBy = <<>> THEN <<ErrNone, <<>>>>
    ELSE LET dep == getIssueByIDTx(st, Head(blockedBy))
         IN  IF dep[1] # ErrNone THEN <<ErrNotFound, <<>>>>
             ELSE LET rest == unresolvedBlockedByTx(st, Tail(blockedBy))
                  IN  IF rest[1] # ErrNone THEN rest
                      ELSE IF dep[2].State # StateDone
                           THEN <<ErrNone, <<dep[2].ID>> \o rest[2]>>
                           ELSE rest

\* an UPDATE that leaves the clause AND version = ? out
VersionMatchesAny(r, expectedVersion) == TRUE

\* the clause AND version = ? that an expected version adds to the UPDATE
VersionMatches(r, expectedVersion) ==
    expectedVersion = None \/ r.version = expectedVersion[1]

\* an UPDATE that leaves SET version = version + 1 out
NextVersionSame(v) == v

\* SET version = version + 1
NextVersion(v) == v + 1

\* closed_at set for done alone
ClosedAtForDone(to, t) == IF to = StateDone THEN Some(t) ELSE None

\* SET closed_at = CURRENT_TIMESTAMP when the target state is done or
\* canceled, SET closed_at = NULL otherwise
ClosedAtFor(to, t) == IF to = StateDone \/ to = StateCanceled THEN Some(t) ELSE None

\* an UPDATE that leaves WHERE id = ? out
ExecUpdateEveryRow(st, id, expectedVersion, row) ==
    IF id \in DOMAIN st /\ VersionMatches(st[id], expectedVersion)
    THEN <<1, [x \in DOMAIN st |-> row]>>
    ELSE <<0, st>>

\* an UPDATE that writes the row and compares the version afterwards
ExecUpdateBlind(st, id, expectedVersion, row) ==
    IF id \in DOMAIN st
    THEN <<IF VersionMatches(st[id], expectedVersion) THEN 1 ELSE 0,
           [st EXCEPT ![id] = row]>>
    ELSE <<0, st>>

\* an UPDATE whose count of affected rows is not looked at
ExecUpdateSilent(st, id, expectedVersion, row) ==
    IF id \in DOMAIN st /\ VersionMatches(st[id], expectedVersion)
    THEN <<1, [st EXCEPT ![id] = row]>>
    ELSE <<1, st>>

\* UPDATE issues SET ... WHERE id = ? [AND version = ?], with the
\* last_updated_at trigger: <<rows affected, table after>>
ExecUpdate(st, id, expectedVersion, row) ==
    IF id \in DOMAIN st /\ VersionMatches(st[id], expectedVersion)
    THEN <<1, [st EXCEPT ![id] = row]>>
    ELSE <<0, st>>

\* the loop of normalizeBlockedByTx without the set of seen ids
RECURSIVE normalizeLoopRepeats(_, _, _, _, _, _)
normalizeLoopRepeats(st, issueID, projectPrefix, blockedBy, seen, out) ==
    IF blockedBy = <<>> THEN <<ErrNone, out>>
    ELSE LET id == ToLower(TrimSpace(Head(blockedBy)))
             rest == Tail(blockedBy)
             p == projectPrefixFromIssueID(id)
             dep == getIssueByIDTx(st, id)
         IN  IF id = <<>> THEN normalizeLoopRepeats(st, issueID, projectPrefix, rest, seen, out)
             ELSE IF ~issueIDRe(id) THEN <<ErrInvalidInput, <<>>>>
             ELSE IF id = issueID THEN <<ErrInvalidInput, <<>>>>
             ELSE IF ~p[2] \/ p[1] # projectPrefix THEN <<ErrInvalidInput, <<>>>>
             ELSE IF dep[1] # ErrNone THEN <<ErrNotFound, <<>>>>
             ELSE IF ProjectPrefixOf(dep[2].ID) # projectPrefix THEN <<ErrInvalidInput, <<>>>>
             ELSE normalizeLoopRepeats(st, issueID, projectPrefix, rest, seen,
                                       Append(out, id))

\* normalizeBlockedByTx: <<error, normalized list>>
\* the loop of normalizeBlockedByTx without the check for the holder
RECURSIVE normalizeLoopAllowsSelf(_, _, _, _, _, _)
normalizeLoopAllowsSelf(st, issueID, projectPrefix, blockedBy, seen, out) ==
    IF blockedBy = <<>> THEN <<ErrNone, out>>
    ELSE LET id == ToLower(TrimSpace(Head(blockedBy)))
             rest == Tail(blockedBy)
             p == projectPrefixFromIssueID(id)
             dep == getIssueByIDTx(st, id)
         IN  IF id = <<>>
             THEN normalizeLoopAllowsSelf(st, issueID, projectPrefix, rest, seen, out)
             ELSE IF ~issueIDRe(id) THEN <<ErrInvalidInput, <<>>>>
             ELSE IF id \in seen
                  THEN normalizeLoopAllowsSelf(st, issueID, projectPrefix, rest, seen, out)
             ELSE IF ~p[2] \/ p[1] # projectPrefix THEN <<ErrInvalidInput, <<>>>>
             ELSE IF dep[1] # ErrNone THEN <<ErrNotFound, <<>>>>
             ELSE IF ProjectPrefixOf(dep[2].ID) # projectPrefix THEN <<ErrInvalidInput, <<>>>>
             ELSE normalizeLoopAllowsSelf(st, issueID, projectPrefix, rest, seen \cup {id},
                                          Append(out, id))

RECURSIVE normalizeLoop(_, _, _, _, _, _)
normalizeLoop(st, issueID, projectPrefix, blockedBy, seen, out) ==
    IF blockedBy = <<>> THEN <<ErrNone, out>>
    ELSE LET id == ToLower(TrimSpace(Head(blockedBy)))
             rest == Tail(blockedBy)
             p == projectPrefixFromIssueID(id)
             dep == getIssueByIDTx(st, id)
         IN  IF id = <<>> THEN normalizeLoop(st, issueID, projectPrefix, rest, seen, out)
             ELSE IF ~issueIDRe(id) THEN <<ErrInvalidInput, <<>>>>
             ELSE IF id = issueID THEN <<ErrInvalidInput, <<>>>>
             ELSE IF id \in seen THEN normalizeLoop(st, issueID, projectPrefix, rest, seen, out)
             ELSE IF ~p[2] \/ p[1] # projectPrefix THEN <<ErrInvalidInput, <<>>>>
             ELSE IF dep[1] # ErrNone THEN <<ErrNotFound, <<>>>>
             ELSE IF ProjectPrefixOf(dep[2].ID) # projectPrefix THEN <<ErrInvalidInput, <<>>>>
             ELSE normalizeLoop(st, issueID, projectPrefix, rest, seen \cup {id},
                                Append(out, id))

\* normalizeBlockedByTx that checks the entries and returns the list as given
normalizeBlockedByTxRaw(st, issueID, projectPrefix, blockedBy) ==
    LET r == normalizeLoop(st, issueID, projectPrefix, blockedBy, {}, <<>>)
    IN  IF r[1] = ErrNone THEN <<ErrNone, blockedBy>> ELSE r

\* normalizeBlockedByTx that builds its result back to front
normalizeBlockedByTxReversed(st, issueID, projectPrefix, blockedBy) ==
    LET r == normalizeLoop(st, issueID, projectPrefix, blockedBy, {}, <<>>)
    IN  <<r[1], [i \in 1..Len(r[2]) |-> r[2][Len(r[2]) + 1 - i]]>>

normalizeBlockedByTx(st, issueID, projectPrefix, blockedBy) ==
    normalizeLoop(st, issueID, projectPrefix, blockedBy, {}, <<>>)

\* an INSERT that leaves the blocked_by column to its default
InsertRowNoDeps(st, id, r) ==
    [x \in DOMAIN st \cup {id} |-> IF x = id THEN [r EXCEPT !.blocked_by = <<>>] ELSE st[x]]

\* table st with the row of id added
InsertRow(st, id, r) == [x \in DOMAIN st \cup {id} |-> IF x = id THEN r ELSE st[x]]

\* the INSERT of a new row with id issueID fails on the primary key
isUniqueViolation(st, issueID) == issueID \in DOMAIN st

\* ------------------------------------------------------------ operations
\* one iteration of the retry loop of CreateIssue with the generated number:
\* [continue, err, st, id]
createAttempt(st, t, projectPrefix, category, title, body, parentID, blockedBy, number) ==
    LET issueID == SprintfID(projectPrefix, number)
        epc == expectedParentCategory(category)
        requiredParentCategory == epc[1]
        needsParent == epc[2]
        hasParent == parentID # None /\ TrimSpace(parentID[1]) # <<>>
        pid == IF hasParent THEN TrimSpace(parentID[1]) ELSE <<>>
        parent == getIssueByIDTx(st, pid)
        cleanParent == IF hasParent THEN Some(pid) ELSE None
        norm == normalizeBlockedByTx(st, issueID, projectPrefix, blockedBy)
        fail(e) == [continue |-> FALSE, err |-> e, st |-> st, id |-> <<>>]
    IN  IF needsParent /\ ~hasParent THEN fail(ErrInvalidInput)
        ELSE IF ~needsParent /\ hasParent THEN fail(ErrInvalidInput)
        ELSE IF hasParent /\ parent[1] # ErrNone THEN fail(ErrNotFound)
        ELSE IF hasParent /\ ProjectPrefixOf(parent[2].ID) # projectPrefix THEN fail(ErrInvalidInput)
        ELSE IF hasParent /\ parent[2].Category # requiredParentCategory
             THEN fail(ErrInvalidInput)
        ELSE IF norm[1] # ErrNone THEN fail(norm[1])
        ELSE IF isUniqueViolation(st, issueID)
             THEN [continue |-> TRUE, err |-> ErrNone, st |-> st, id |-> <<>>]
        ELSE [continue |-> FALSE, err |-> ErrNone, id |-> issueID,
              st |-> InsertRow(st, issueID,
                        [category |-> category, title |-> title, body |-> body,
                         state |-> StateTodo, parent_id |-> cleanParent, version |-> 1,
                         blocked_by |-> norm[2], created_at |-> t,
                         last_updated_at |-> t, closed_at |-> None])]

\* the retry loop of CreateIssue; numbers[attempt + 1] is what
\* randomIssueNumber returns in iteration attempt: [err, st, id, attempts]
RECURSIVE createLoop(_, _, _, _, _, _, _, _, _, _)
createLoop(st, t, projectPrefix, category, title, body, parentID, blockedBy, numbers, attempt) ==
    IF attempt >= maxCreateAttempts
    THEN [err |-> ErrConflict, st |-> st, id |-> <<>>, attempts |-> attempt]
    ELSE LET a == createAttempt(st, t, projectPrefix, category, title, body, parentID,
                                blockedBy, numbers[attempt + 1])
         IN  IF a.continue
             THEN createLoop(st, t, projectPrefix, category, title, body, parentID,
                             blockedBy, numbers, attempt + 1)
             ELSE [err |-> a.err, st |-> a.st, id |-> a.id, attempts |-> attempt + 1]

CreateIssueResult(st, t, projectPrefix, category, title, body, parentID, blockedBy, numbers) ==
    LET prefix == TrimSpace(ToLower(projectPrefix))
        ttl == TrimSpace(title)
        fail(e) == [err |-> e, st |-> st, id |-> <<>>, attempts |-> 0]
    IN  IF ~projectPrefixRe(prefix) THEN fail(ErrInvalidInput)
        ELSE IF ~IsValidCategory(category) THEN fail(ErrInvalidInput)
        ELSE IF ttl = <<>> THEN fail(ErrInvalidInput)
        ELSE createLoop(st, t, prefix, category, ttl, body, parentID, blockedBy, numbers, 0)

\* TransitionState as if the expected version were compared before the
\* transition is validated
TransitionStateResultVersionFirst(st, t, id, to, expectedVersion) ==
    LET got == getIssueByIDTx(st, id)
        issue == got[2]
        unresolved == unresolvedBlockedByTx(st, issue.BlockedBy)
        row == [st[id] EXCEPT !.state = to,
                             !.version = NextVersion(st[id].version),
                             !.last_updated_at = t,
                             !.closed_at = ClosedAtFor(to, t)]
        res == ExecUpdate(st, id, expectedVersion, row)
        fail(e) == [err |-> e, st |-> st]
    IN  IF ~IsValidState(to) THEN fail(ErrInvalidInput)
        ELSE IF got[1] # ErrNone THEN fail(got[1])
        ELSE IF res[1] = 0
             THEN IF expectedVersion # None THEN fail(ErrConflict) ELSE fail(ErrNotFound)
        ELSE IF ValidateTransition(issue.State, to) # ErrNone
             THEN fail(ValidateTransition(issue.State, to))
        ELSE IF to = StateInProgress /\ unresolved[1] # ErrNone THEN fail(unresolved[1])
        ELSE IF to = StateInProgress /\ Len(unresolved[2]) > 0 THEN fail(ErrInvalidInput)
        ELSE [err |-> ErrNone, st |-> res[2]]

\* the result of TransitionState on table st: [err, st]
TransitionStateResult(st, t, id, to, expectedVersion) ==
    LET got == getIssueByIDTx(st, id)
        issue == got[2]
        unresolved == unresolvedBlockedByTx(st, issue.BlockedBy)
        row == [st[id] EXCEPT !.state = to,
                             !.version = NextVersion(st[id].version),
                             !.last_updated_at = t,
                             !.closed_at = ClosedAtFor(to, t)]
        res == ExecUpdate(st, id, expectedVersion, row)
        fail(e) == [err |-> e, st |-> st]
    IN  IF ~IsValidState(to) THEN fail(ErrInvalidInput)
        ELSE IF got[1] # ErrNone THEN fail(got[1])
        ELSE IF ValidateTransition(issue.State, to) # ErrNone
             THEN fail(ValidateTransition(issue.State, to))
        ELSE IF to = StateInProgress /\ unresolved[1] # ErrNone THEN fail(unresolved[1])
        ELSE IF to = StateInProgress /\ Len(unresolved[2]) > 0 THEN fail(ErrInvalidInput)
        ELSE IF res[1] = 0
             THEN IF expectedVersion # None THEN fail(ErrConflict) ELSE fail(ErrNotFound)
        ELSE [err |-> ErrNone, st |-> res[2]]

\* the result of SetParent on table st: [err, st]
SetParentResult(st, t, rawID, parentID, expectedVersion) ==
    LET id == TrimSpace(rawID)
        got == getIssueByIDTx(st, id)
        issue == got[2]
        epc == expectedParentCategory(issue.Category)
        requiredParentCategory == epc[1]
        needsParent == epc[2]
        blank == parentID = None \/ TrimSpace(parentID[1]) = <<>>
        pid == TrimSpace(parentID[1])
        parent == getIssueByIDTx(st, pid)
        newParent == IF needsParent THEN Some(pid) ELSE None
        row == [st[id] EXCEPT !.parent_id = newParent,
                             !.version = NextVersion(st[id].version),
                             !.last_updated_at = t]
        res == ExecUpdate(st, id, expectedVersion, row)
        fail(e) == [err |-> e, st |-> st]
    IN  IF id = <<>> THEN fail(ErrInvalidInput)
        ELSE IF got[1] # ErrNone THEN fail(got[1])
        ELSE IF needsParent /\ blank THEN fail(ErrInvalidInput)
        ELSE IF ~needsParent /\ ~blank THEN fail(ErrInvalidInput)
        ELSE IF needsParent /\ parent[1] # ErrNone THEN fail(parent[1])
        ELSE IF needsParent /\ ProjectPrefixOf(parent[2].ID) # ProjectPrefixOf(issue.ID)
             THEN fail(ErrInvalidInput)
        ELSE IF needsParent /\ parent[2].Category # requiredParentCategory
             THEN fail(ErrInvalidInput)
        ELSE IF res[1] = 0
             THEN IF expectedVersion # None THEN fail(ErrConflict) ELSE fail(ErrNotFound)
        ELSE [err |-> ErrNone, st |-> res[2]]

\* SetBlockedBy that writes the row, compares the version afterwards and
\* does not roll back
SetBlockedByResultEager(st, t, rawID, blockedBy, expectedVersion) ==
    LET id == TrimSpace(rawID)
        got == getIssueByIDTx(st, id)
        issue == got[2]
        normalized == normalizeBlockedByTx(st, issue.ID, ProjectPrefixOf(issue.ID), blockedBy)
        row == [st[id] EXCEPT !.blocked_by = normalized[2],
                             !.version = NextVersion(st[id].version),
                             !.last_updated_at = t]
        res == ExecUpdateBlind(st, id, expectedVersion, row)
        fail(e) == [err |-> e, st |-> st]
    IN  IF id = <<>> THEN fail(ErrInvalidInput)
        ELSE IF got[1] # ErrNone THEN fail(got[1])
        ELSE IF normalized[1] # ErrNone THEN fail(normalized[1])
        ELSE IF res[1] = 0 THEN [err |-> ErrConflict, st |-> res[2]]
        ELSE [err |-> ErrNone, st |-> res[2]]

\* SetBlockedBy that applies the gate of in_progress to the new list
SetBlockedByResultGated(st, t, rawID, blockedBy, expectedVersion) ==
    LET id == TrimSpace(rawID)
        got == getIssueByIDTx(st, id)
        issue == got[2]
        normalized == normalizeBlockedByTx(st, issue.ID, ProjectPrefixOf(issue.ID), blockedBy)
        row == [st[id] EXCEPT !.blocked_by = normalized[2],
                             !.version = NextVersion(st[id].version),
                             !.last_updated_at = t]
        res == ExecUpdate(st, id, expectedVersion, row)
        fail(e) == [err |-> e, st |-> st]
    IN  IF id = <<>> THEN fail(ErrInvalidInput)
        ELSE IF got[1] # ErrNone THEN fail(got[1])
        ELSE IF normalized[1] # ErrNone THEN fail(normalized[1])
        ELSE IF /\ issue.State = StateInProgress
                /\ Len(unresolvedBlockedByTx(st, normalized[2])[2]) > 0
             THEN fail(ErrInvalidInput)
        ELSE IF res[1] = 0
             THEN IF expectedVersion # None THEN fail(ErrConflict) ELSE fail(ErrNotFound)
        ELSE [err |-> ErrNone, st |-> res[2]]

\* the result of SetBlockedBy on table st: [err, st]
SetBlockedByResult(st, t, rawID, blockedBy, expectedVersion) ==
    LET id == TrimSpace(rawID)
        got == getIssueByIDTx(st, id)
        issue == got[2]
        normalized == normalizeBlockedByTx(st, issue.ID, ProjectPrefixOf(issue.ID), blockedBy)
        row == [st[id] EXCEPT !.blocked_by = normalized[2],
                             !.version = NextVersion(st[id].version),
                             !.last_updated_at = t]
        res == ExecUpdate(st, id, expectedVersion, row)
        fail(e) == [err |-> e, st |-> st]
    IN  IF id = <<>> THEN fail(ErrInvalidInput)
        ELSE IF got[1] # ErrNone THEN fail(got[1])
        ELSE IF normalized[1] # ErrNone THEN fail(normalized[1])
        ELSE IF res[1] = 0
             THEN IF expectedVersion # None THEN fail(ErrConflict) ELSE fail(ErrNotFound)
        ELSE [err |-> ErrNone, st |-> res[2]]

\* ---------------------------------------------------------------- queries
\* the row of id as scanIssue returns it
scanIssue(st, id) == getIssueByIDTx(st, id)[2]

\* a SELECT that leaves out the rows that are canceled
getIssueByIDDBLive(st, id) ==
    IF id \notin DOMAIN st \/ st[id].state = StateCanceled
    THEN <<ErrNotFound, [ID |-> id]>>
    ELSE <<ErrNone, scanIssue(st, id)>>

\* SELECT ... WHERE id = ? on the database handle followed by scanIssue
getIssueByIDDB(st, id) ==
    IF id \notin DOMAIN st THEN <<ErrNotFound, [ID |-> id]>> ELSE <<ErrNone, scanIssue(st, id)>>

\* the result of GetIssue on table st: <<error, issue>>
GetIssueResult(st, id) == getIssueByIDDB(st, TrimSpace(id))

\* LIKE that takes the characters % and _ of the pattern for themselves
RECURSIVE LikeMatchLiteral(_, _)
LikeMatchLiteral(pattern, str) ==
    IF pattern = <<>> THEN str = <<>>
    ELSE IF Head(pattern) = "%" /\ Tail(pattern) = <<>> THEN TRUE
    ELSE /\ str # <<>>
         /\ ToLowerChar(Head(pattern)) = ToLowerChar(Head(str))
         /\ LikeMatchLiteral(Tail(pattern), Tail(str))

\* str LIKE pattern: % stands for any characters, _ for one, and letters
\* match in either case
RECURSIVE LikeMatch(_, _)
LikeMatch(pattern, str) ==
    IF pattern = <<>> THEN str = <<>>
    ELSE IF Head(pattern) = "%"
         THEN \/ LikeMatch(Tail(pattern), str)
              \/ str # <<>> /\ LikeMatch(pattern, Tail(str))
    ELSE /\ str # <<>>
         /\ Head(pattern) = "_" \/ ToLowerChar(Head(pattern)) = ToLowerChar(Head(str))
         /\ LikeMatch(Tail(pattern), Tail(str))

\* ORDER BY created_at ASC only
RowBeforeByTime(st, x, y) == st[x].created_at < st[y].created_at

\* ORDER BY created_at ASC, id ASC: the row of x comes before the row of y
RowBeforeInList(st, x, y) ==
    \/ st[x].created_at < st[y].created_at
    \/ st[x].created_at = st[y].created_at /\ IDLess(x, y)

\* the ids of the set in the order of ORDER BY
RECURSIVE OrderBy(_, _)
OrderBy(st, ids) ==
    IF ids = {} THEN <<>>
    ELSE LET x == CHOOSE y \in ids : \A z \in ids \ {y} : ~RowBeforeInList(st, z, y)
         IN  <<x>> \o OrderBy(st, ids \ {x})

\* the result of ListIssues on table st: [err, out]
ListIssuesResult(st, projectPrefix, state) ==
    LET p == TrimSpace(projectPrefix)
        pattern == ToLower(p) \o <<"-", "%">>
        hit == {id \in DOMAIN st :
                   /\ p # <<>> => LikeMatch(pattern, id)
                   /\ state # None => st[id].state = state[1]}
        ids == OrderBy(st, hit)
    IN  IF state # None /\ ~IsValidState(state[1])
        THEN [err |-> ErrInvalidInput, out |-> <<>>]
        ELSE [err |-> ErrNone, out |-> [i \in 1..Len(ids) |-> scanIssue(st, ids[i])]]

\* a children map that keeps the first child of every parent only
childrenOfFirst(list, id) ==
    LET ch == SelectSeq(list, LAMBDA is : is.ParentID = Some(id))
    IN  IF ch = <<>> THEN ch ELSE <<ch[1]>>

\* the entries of the list whose parent is id, in the order of the list
childrenOf(list, id) == SelectSeq(list, LAMBDA is : is.ParentID = Some(id))

\* build of Tree: the node of root with the nodes of its children
RECURSIVE build(_, _)
build(list, root) ==
    LET ch == childrenOf(list, root.ID)
    IN  [Issue |-> root, Children |-> [i \in 1..Len(ch) |-> build(list, ch[i])]]

\* the result of Tree on table st: [err, out]
TreeResult(st, projectPrefix) ==
    LET listed == ListIssuesResult(st, projectPrefix, None)
        roots == SelectSeq(listed.out, LAMBDA is : is.ParentID = None)
    IN  IF listed.err # ErrNone THEN [err |-> listed.err, out |-> <<>>]
        ELSE [err |-> ErrNone, out |-> [i \in 1..Len(roots) |-> build(listed.out, roots[i])]]

\* ------------------------------------------------- concurrent transactions
\* the call op with arguments in, run at time t by a process that has the
\* table st to itself: [err, st]
ResultOf(op, st, t, in) ==
    CASE op = "TransitionState" -> TransitionStateResult(st, t, in[1], in[2], in[3])
      [] op = "SetParent" -> SetParentResult(st, t, in[1], in[2], in[3])
      [] op = "SetBlockedBy" -> SetBlockedByResult(st, t, in[1], in[2], in[3])

\* the columns the UPDATE of op sets from its parameters; version is set to
\* version + 1 of the row the statement finds
UpdateColumns(op) ==
    CASE op = "TransitionState" -> {"state", "last_updated_at", "closed_at"}
      [] op = "SetParent" -> {"parent_id", "last_updated_at"}
      [] op = "SetBlockedBy" -> {"blocked_by", "last_updated_at"}

\* a transaction that never looks at the snapshot it read from
SnapshotCurrentAlways(snap, cur) == TRUE

\* the snapshot a transaction read from is still the last committed table,
\* so that its read transaction can become the write transaction; every
\* commit changes a row or adds one
SnapshotCurrent(snap, cur) == snap = cur

\* a transaction that compares the version with the row it has read and then
\* writes the row whatever the table holds by now
TxResultReadThenWrite(op, snap, cur, t, in) ==
    LET res == ResultOf(op, snap, t, in)
        id == TrimSpace(in[1])
        computed == res.st[id]
        row == [f \in DOMAIN cur[id] |->
                   IF f = "version" THEN NextVersion(cur[id].version)
                   ELSE IF f \in UpdateColumns(op) THEN computed[f]
                   ELSE cur[id][f]]
    IN  IF res.err # ErrNone THEN [err |-> res.err, st |-> cur]
        ELSE [err |-> ErrNone, st |-> [cur EXCEPT ![id] = row]]

\* the transaction of the call op with arguments in that did its reads on
\* table snap, when it goes on while the last committed table is cur:
\* [err, st]. The checks are made on snap; a transaction that gets to its
\* UPDATE fails with the error of the database when a commit has replaced
\* snap, and otherwise runs the statement on cur and commits
TxResult(op, snap, cur, t, in) ==
    LET res == ResultOf(op, snap, t, in)
        id == TrimSpace(in[1])
        expectedVersion == in[3]
        computed == ResultOf(op, snap, t, <<in[1], in[2], None>>).st[id]
        row == [f \in DOMAIN cur[id] |->
                   IF f = "version" THEN NextVersion(cur[id].version)
                   ELSE IF f \in UpdateColumns(op) THEN computed[f]
                   ELSE cur[id][f]]
        upd == ExecUpdate(cur, id, expectedVersion, row)
        fail(e) == [err |-> e, st |-> cur]
    IN  IF res.err \notin {ErrNone, ErrConflict} THEN fail(res.err)
        ELSE IF ~SnapshotCurrent(snap, cur) THEN fail(ErrBusy)
        ELSE IF upd[1] = 0
             THEN IF expectedVersion # None THEN fail(ErrConflict) ELSE fail(ErrNotFound)
        ELSE [err |-> ErrNone, st |-> upd[2]]

\* an attempt of CreateIssue queries the table before its INSERT: for its
\* parent, or for an entry of blockedBy that is not blank
attemptReads(parentID, blockedBy) ==
    \/ parentID # None /\ TrimSpace(parentID[1]) # <<>>
    \/ \E i \in 1..Len(blockedBy) : TrimSpace(blockedBy[i]) # <<>>

\* ------------------------------------------------------------------ inputs
PrefixA == <<"a", "a", "a">>
PrefixB == <<"b", "b", "b">>
RandNumbers == RandBase .. (RandBase + RandSpan - 1)

ToUpperChar(c) == CASE c = "a" -> "A" [] c = "b" -> "B" [] OTHER -> c
ToUpper(s) == [i \in 1..Len(s) |-> ToUpperChar(s[i])]

\* raw spellings of s that trim (and lowercase) to s
Pad(s) == <<" ">> \o s \o <<" ">>
Decorate(s) == <<" ">> \o ToUpper(s) \o <<" ">>

MalformedID == <<"a", "a", "-", "1">>
Blank == <<" ">>

\* a well-formed id of PrefixA that names no row (none when all are rows)
Absent(st) ==
    LET free == {n \in RandNumbers : SprintfID(PrefixA, n) \notin DOMAIN st}
    IN  IF free = {} THEN {}
        ELSE {SprintfID(PrefixA, CHOOSE n \in free : \A m \in free : n <= m)}

\* at most one id of a row
OneStored(st) == IF DOMAIN st = {} THEN {} ELSE {CHOOSE x \in DOMAIN st : TRUE}

AllStates == {StateTodo, StateInProgress, StateBlocked, StateDone, StateCanceled}
AllCategories == {CategoryProject, CategoryWorkstream, CategoryTask}
ToInputs == AllStates \cup {"bogus"}

\* a current and a stale expected version for the row of id
VersionInputs(st, id) == {Some(st[id].version), Some(st[id].version - 1)}

\* CURRENT_TIMESTAMP of a statement: not before any timestamp of the table
RECURSIVE MaxStamp(_, _)
MaxStamp(st, ids) ==
    IF ids = {} THEN 0
    ELSE LET x == CHOOSE y \in ids : TRUE
             rest == MaxStamp(st, ids \ {x})
             mine == IF st[x].closed_at # None /\ st[x].closed_at[1] > st[x].last_updated_at
                     THEN st[x].closed_at[1] ELSE st[x].last_updated_at
         IN  IF mine > rest THEN mine ELSE rest

TimestampInputs(st) == MaxStamp(st, DOMAIN st) .. MaxClock

TransitionInputs(st) ==
    {<<id, to, None>> : id \in DOMAIN st, to \in ToInputs}
      \cup UNION {{<<id, to, ev>> : to \in {StateInProgress, StateDone, StateTodo},
                                    ev \in VersionInputs(st, id)} : id \in DOMAIN st}
      \cup {<<id, StateTodo, ev>> :
               id \in Absent(st) \cup {Pad(x) : x \in OneStored(st)}, ev \in {None, Some(1)}}
      \cup {<<id, "bogus", None>> : id \in Absent(st)}

SetParentInputs(st) ==
    UNION {{<<id, pa, ev>> :
               pa \in {None} \cup {Some(x) : x \in DOMAIN st \ {id}},
               ev \in {None} \cup VersionInputs(st, id)} : id \in DOMAIN st}
      \cup {<<id, Some(x), None>> : id \in DOMAIN st, x \in Absent(st)}
      \cup {<<id, None, None>> : id \in Absent(st) \cup {Blank}}
      \cup {<<id, None, Some(1)>> : id \in Absent(st)}
      \cup {<<Pad(id), pa, None>> : id \in OneStored(st),
                                    pa \in {Some(Blank)} \cup {Some(Pad(x)) : x \in DOMAIN st}}

\* raw dependency lists for the holder id
BlockedByInputs(st, id) ==
    {<<>>, <<MalformedID>>}
      \cup {<<x>> : x \in DOMAIN st \cup Absent(st)}
      \cup {<<x, y>> : x \in DOMAIN st \ {id}, y \in DOMAIN st \ {id}}
      \cup {<<x, <<>>, Decorate(x)>> : x \in OneStored(st)}
      \cup {<<x, MalformedID>> : x \in Absent(st)}

SetBlockedByInputs(st) ==
    UNION {{<<id, bb, None>> : bb \in BlockedByInputs(st, id)} : id \in DOMAIN st}
      \cup UNION {{<<id, bb, ev>> : bb \in {<<>>} \cup {<<x>> : x \in DOMAIN st \ {id}},
                                    ev \in VersionInputs(st, id)} : id \in DOMAIN st}
      \cup {<<id, <<>>, None>> : id \in Absent(st) \cup {Blank}}
      \cup {<<id, <<>>, Some(1)>> : id \in Absent(st)}
      \cup {<<Pad(id), <<>>, None>> : id \in OneStored(st)}

CreateArgs(p, c, ti, pa, bb) ==
    [projectPrefix |-> p, category |-> c, title |-> ti, body |-> <<>>,
     parentID |-> pa, blockedBy |-> bb]

CreateInputs(st) ==
    {CreateArgs(PrefixA, CategoryProject, <<"t">>, None, bb) :
        bb \in BlockedByInputs(st, <<>>)}
      \cup {CreateArgs(PrefixA, c, <<"t">>, Some(x), <<>>) :
               c \in AllCategories, x \in DOMAIN st \cup Absent(st)}
      \cup {CreateArgs(PrefixA, c, <<"t">>, None, <<>>) :
               c \in {CategoryWorkstream, CategoryTask, "epic"}}
      \cup {CreateArgs(PrefixA, CategoryWorkstream, <<"t">>, pa, <<>>) :
               pa \in {Some(Blank)} \cup {Some(Pad(x)) : x \in OneStored(st)}}
      \cup {CreateArgs(p, CategoryProject, <<"t">>, None, <<>>) :
               p \in {PrefixB, Decorate(PrefixA), <<"a", "a">>}}
      \cup {CreateArgs(PrefixA, CategoryProject, Blank, None, <<>>)}

\* what randomIssueNumber returns in the iterations of one call that makes
\* ids of prefix: n in every iteration, or m in the first
\* maxCreateAttempts - 1 iterations and n in the last, where n is the
\* largest number whose id names no row, or the number of a row, and m is
\* the number of a row
NumberInputs(st, prefix) ==
    LET used == {n \in RandNumbers : SprintfID(prefix, n) \in DOMAIN st}
        free == RandNumbers \ used
        fresh == IF free = {} THEN {} ELSE {CHOOSE n \in free : \A m \in free : n >= m}
        taken == IF used = {} THEN {} ELSE {CHOOSE n \in used : TRUE}
    IN  {[i \in 1..maxCreateAttempts |-> n] : n \in fresh \cup taken}
          \cup {[i \in 1..maxCreateAttempts |-> IF i < maxCreateAttempts THEN m ELSE n] :
                   m \in taken, n \in fresh}

\* -------------------------------------------------------------------- state
VARIABLES
    store,      \* the issues table: id |-> row
    mutations,  \* history: id |-> number of successful mutations of the row
    created,    \* history: the id and category of every row, in the order of creation
    budget,     \* number of writes the bounds still allow
    last,       \* the call the process made and what it returned
    txs,        \* the transactions of the processes that run side by side
    lock        \* the process that holds the write lock of the store file, or 0

vars == <<store, mutations, created, budget, last, txs, lock>>

\* the process is between two calls
Idle == [op |-> "none"]

\* the processes that share the store file
Procs == {1, 2}

\* a process that has not made its call
NoTx ==
    [phase |-> "idle", op |-> "none", in |-> <<>>, id |-> <<>>, snap |-> <<>>,
     step |-> "none", number |-> 0, attempts |-> 0, collided |-> FALSE,
     err |-> ErrNone, before |-> <<>>, after |-> <<>>]

Init ==
    /\ store = <<>>
    /\ mutations = <<>>
    /\ created = <<>>
    /\ budget = MaxWrites
    /\ last = Idle
    /\ txs = [p \in Procs |-> NoTx]
    /\ lock = 0

\* ---------------------------------------------------- populated tables
\* the id of PrefixA with the n-th number of the range
IssueID(n) == SprintfID(PrefixA, RandBase + n)

\* a row created at time 0 and not touched after it
SeedRow(category, parent, blockedBy) ==
    [category |-> category, title |-> <<"t">>, body |-> <<>>, state |-> StateTodo,
     parent_id |-> parent, version |-> 1, blocked_by |-> blockedBy, created_at |-> 0,
     last_updated_at |-> 0, closed_at |-> None]

\* a project that went todo -> in_progress -> done, and a project that is
\* blocked by it
SeedDeps ==
    (IssueID(2) :> [SeedRow(CategoryProject, None, <<>>) EXCEPT
                       !.state = StateDone, !.version = 3, !.closed_at = Some(0)])
      @@ (IssueID(1) :> SeedRow(CategoryProject, None, <<IssueID(2)>>))

\* a project, its workstream, and the task of the workstream
SeedTree ==
    (IssueID(2) :> SeedRow(CategoryProject, None, <<>>))
      @@ (IssueID(1) :> SeedRow(CategoryWorkstream, Some(IssueID(2)), <<>>))
      @@ (IssueID(0) :> SeedRow(CategoryTask, Some(IssueID(1)), <<>>))

\* two projects and a workstream of the first
SeedMove ==
    (IssueID(2) :> SeedRow(CategoryProject, None, <<>>))
      @@ (IssueID(1) :> SeedRow(CategoryProject, None, <<>>))
      @@ (IssueID(0) :> SeedRow(CategoryWorkstream, Some(IssueID(2)), <<>>))

\* a project with its workstream, and a project of another prefix
SeedCross ==
    (IssueID(2) :> SeedRow(CategoryProject, None, <<>>))
      @@ (IssueID(1) :> SeedRow(CategoryWorkstream, Some(IssueID(2)), <<>>))
      @@ (SprintfID(PrefixB, RandBase + 2) :> SeedRow(CategoryProject, None, <<>>))

\* a done project, a blocked project that is blocked by it, a canceled
\* project, and a project of another prefix that is in progress
SeedStates ==
    (IssueID(2) :> [SeedRow(CategoryProject, None, <<>>) EXCEPT
                       !.state = StateDone, !.version = 3, !.closed_at = Some(0)])
      @@ (IssueID(1) :> [SeedRow(CategoryProject, None, <<IssueID(2)>>) EXCEPT
                            !.state = StateBlocked, !.version = 2])
      @@ (IssueID(0) :> [SeedRow(CategoryProject, None, <<>>) EXCEPT
                            !.state = StateCanceled, !.version = 2, !.closed_at = Some(0)])
      @@ (SprintfID(PrefixB, RandBase + 2) :>
              [SeedRow(CategoryProject, None, <<>>) EXCEPT
                  !.state = StateInProgress, !.version = 2])

\* a project that is in progress and a project that is not started
SeedActive ==
    (IssueID(2) :> [SeedRow(CategoryProject, None, <<>>) EXCEPT
                       !.state = StateInProgress, !.version = 2])
      @@ (IssueID(1) :> SeedRow(CategoryProject, None, <<>>))

\* the rows of a populated table were created in the order of the lines of
\* its definition: those of PrefixA from the largest number down, then the
\* row of PrefixB
RECURSIVE SeedOrder(_, _)
SeedOrder(st, ids) ==
    IF ids = {} THEN <<>>
    ELSE LET inA == {x \in ids : ProjectPrefixOf(x) = PrefixA}
             pool == IF inA # {} THEN inA ELSE ids
             x == CHOOSE y \in pool : \A z \in pool : y = z \/ ~IDLess(y, z)
         IN  <<[id |-> x, category |-> st[x].category]>> \o SeedOrder(st, ids \ {x})

Seeds == {SeedDeps, SeedTree, SeedMove, SeedCross, SeedStates, SeedActive}

\* the process starts on a table that earlier processes have populated
InitSeeded ==
    /\ store \in Seeds
    /\ mutations = [x \in DOMAIN store |-> store[x].version - 1]
    /\ created = SeedOrder(store, DOMAIN store)
    /\ budget = MaxSeedWrites
    /\ last = Idle
    /\ txs = [p \in Procs |-> NoTx]
    /\ lock = 0

\* two projects that are blocked by each other: the second was created with
\* the first in its list, then a SetBlockedBy gave the first its list; in
\* SeedCycleActive the first had been put into in_progress before that
SeedCycle ==
    (IssueID(2) :> [SeedRow(CategoryProject, None, <<IssueID(1)>>) EXCEPT !.version = 2])
      @@ (IssueID(1) :> SeedRow(CategoryProject, None, <<IssueID(2)>>))

SeedCycleActive ==
    (IssueID(2) :> [SeedRow(CategoryProject, None, <<IssueID(1)>>) EXCEPT
                       !.state = StateInProgress, !.version = 3])
      @@ (IssueID(1) :> SeedRow(CategoryProject, None, <<IssueID(2)>>))

\* the process starts on a table in which two rows are blocked by each other
InitCycle ==
    /\ store \in {SeedCycle, SeedCycleActive}
    /\ mutations = [x \in DOMAIN store |-> store[x].version - 1]
    /\ created = SeedOrder(store, DOMAIN store)
    /\ budget = MaxSeedWrites
    /\ last = Idle
    /\ txs = [p \in Procs |-> NoTx]
    /\ lock = 0

\* a committed write is possible within the bounds
CanWrite == budget > 0

Spent(err) == IF err = ErrNone THEN budget - 1 ELSE budget

\* ---------------------------------------------------------------- actions
\* the caller has its result and the process ends
Exit ==
    /\ last # Idle
    /\ last' = Idle
    /\ UNCHANGED <<store, mutations, created, budget, txs, lock>>

\* a successful mutation of the row of id is recorded in the history
Mutated(err, id) ==
    IF err = ErrNone THEN [mutations EXCEPT ![id] = @ + 1] ELSE mutations

CreateIssue ==
    /\ last = Idle
    /\ UNCHANGED <<txs, lock>>
    /\ \E in \in CreateInputs(store), now \in TimestampInputs(store) :
        \E numbers \in NumberInputs(store, TrimSpace(ToLower(in.projectPrefix))) :
          LET res == CreateIssueResult(store, now, in.projectPrefix, in.category, in.title,
                                       in.body, in.parentID, in.blockedBy, numbers)
          IN  /\ res.err = ErrNone => CanWrite
              /\ store' = res.st
              /\ budget' = Spent(res.err)
              /\ mutations' = IF res.err = ErrNone
                              THEN [x \in DOMAIN res.st |->
                                       IF x = res.id THEN 0 ELSE mutations[x]]
                              ELSE mutations
              /\ created' = IF res.err = ErrNone
                            THEN Append(created, [id |-> res.id, category |-> in.category])
                            ELSE created
              /\ last' = [op |-> "CreateIssue", err |-> res.err, id |-> res.id,
                          in |-> in, numbers |-> numbers, attempts |-> res.attempts,
                          before |-> store]

TransitionState ==
    /\ last = Idle
    /\ UNCHANGED <<txs, lock>>
    /\ \E in \in TransitionInputs(store), now \in TimestampInputs(store) :
        LET id == in[1]
            to == in[2]
            expectedVersion == in[3]
            res == TransitionStateResult(store, now, id, to, expectedVersion)
        IN  /\ res.err = ErrNone => CanWrite
            /\ store' = res.st
            /\ budget' = Spent(res.err)
            /\ mutations' = Mutated(res.err, id)
            /\ UNCHANGED created
            /\ last' = [op |-> "TransitionState", err |-> res.err, id |-> id, to |-> to,
                        expectedVersion |-> expectedVersion,
                        before |-> store]

SetParent ==
    /\ last = Idle
    /\ UNCHANGED <<txs, lock>>
    /\ \E in \in SetParentInputs(store), now \in TimestampInputs(store) :
        LET rawID == in[1]
            parentID == in[2]
            expectedVersion == in[3]
            res == SetParentResult(store, now, rawID, parentID, expectedVersion)
        IN  /\ res.err = ErrNone => CanWrite
            /\ store' = res.st
            /\ budget' = Spent(res.err)
            /\ mutations' = Mutated(res.err, TrimSpace(rawID))
            /\ UNCHANGED created
            /\ last' = [op |-> "SetParent", err |-> res.err, id |-> TrimSpace(rawID),
                        parentID |-> parentID, expectedVersion |-> expectedVersion,
                        before |-> store]

SetBlockedBy ==
    /\ last = Idle
    /\ UNCHANGED <<txs, lock>>
    /\ \E in \in SetBlockedByInputs(store), now \in TimestampInputs(store) :
        LET rawID == in[1]
            blockedBy == in[2]
            expectedVersion == in[3]
            res == SetBlockedByResult(store, now, rawID, blockedBy, expectedVersion)
        IN  /\ res.err = ErrNone => CanWrite
            /\ store' = res.st
            /\ budget' = Spent(res.err)
            /\ mutations' = Mutated(res.err, TrimSpace(rawID))
            /\ UNCHANGED created
            /\ last' = [op |-> "SetBlockedBy", err |-> res.err, id |-> TrimSpace(rawID),
                        blockedBy |-> blockedBy, expectedVersion |-> expectedVersion,
                        before |-> store]

Next ==
    \/ Exit
    \/ CreateIssue
    \/ TransitionState
    \/ SetParent
    \/ SetBlockedBy

Spec == Init /\ [][Next]_vars

SpecSeeded == InitSeeded /\ [][Next]_vars
SpecCycle == InitCycle /\ [][Next]_vars

\* ------------------------------------------------------- calls that read
\* ids for GetIssue on table st
GetIssueInputs(st) ==
    DOMAIN st \cup Absent(st) \cup {Blank}
      \cup {Pad(x) : x \in OneStored(st)} \cup {ToUpper(x) : x \in OneStored(st)}

\* a prefix argument in which a character is _
WildPrefix == <<"a", "_", "a">>

PrefixInputs == {<<>>, PrefixA, Decorate(PrefixA), PrefixB, WildPrefix, <<"a", "a">>}

StateFilterInputs == {None, Some(StateTodo), Some(StateDone), Some("bogus")}

\* a call that reads leaves the table and the histories as they are
ReadOnly == UNCHANGED <<store, mutations, created, budget, txs, lock>>

GetIssue ==
    /\ last = Idle
    /\ ReadOnly
    /\ \E id \in GetIssueInputs(store) :
        LET res == GetIssueResult(store, id)
        IN  last' = [op |-> "GetIssue", err |-> res[1], id |-> id, out |-> res[2],
                     before |-> store]

ListIssues ==
    /\ last = Idle
    /\ ReadOnly
    /\ \E projectPrefix \in PrefixInputs, state \in StateFilterInputs :
        LET res == ListIssuesResult(store, projectPrefix, state)
        IN  last' = [op |-> "ListIssues", err |-> res.err, projectPrefix |-> projectPrefix,
                     state |-> state, out |-> res.out, before |-> store]

Tree ==
    /\ last = Idle
    /\ ReadOnly
    /\ \E projectPrefix \in PrefixInputs :
        LET res == TreeResult(store, projectPrefix)
        IN  last' = [op |-> "Tree", err |-> res.err, projectPrefix |-> projectPrefix,
                     out |-> res.out, before |-> store]

NextQueries ==
    \/ Next
    \/ GetIssue
    \/ ListIssues
    \/ Tree

\* the processes that write and the processes that read, one after another
SpecQueries == Init /\ [][NextQueries]_vars

\* ------------------------------------------------ processes side by side
\* two processes start on a table that earlier processes have populated,
\* and each makes one call
ConcurrentSeeds == {SeedDeps, SeedMove}

InitConcurrent ==
    /\ store \in ConcurrentSeeds
    /\ mutations = [x \in DOMAIN store |-> store[x].version - 1]
    /\ created = SeedOrder(store, DOMAIN store)
    /\ budget = Cardinality(Procs)
    /\ last = Idle
    /\ txs = [p \in Procs |-> NoTx]
    /\ lock = 0

\* arguments of the calls the processes make on rows of table st
ConcurrentTransitionInputs(st) ==
    UNION {{<<id, to, ev>> : to \in {StateTodo, StateInProgress, StateCanceled},
                             ev \in {None, Some(st[id].version)}} : id \in DOMAIN st}

ConcurrentSetParentInputs(st) ==
    UNION {{<<id, Some(x), ev>> :
               x \in {y \in DOMAIN st : st[y].category = CategoryProject},
               ev \in {None, Some(st[id].version)}} :
              id \in {y \in DOMAIN st : st[y].category # CategoryProject}}

ConcurrentSetBlockedByInputs(st) ==
    UNION {{<<id, bb, ev>> : bb \in {<<>>} \cup {<<x>> : x \in DOMAIN st \ {id}},
                             ev \in {None, Some(st[id].version)}} :
              id \in {y \in DOMAIN st : st[y].category = CategoryProject}}

ConcurrentCreateInputs(st) ==
    {CreateArgs(PrefixA, CategoryProject, ti, None, <<>>) : ti \in {<<"t">>, Blank}}
      \cup {CreateArgs(PrefixA, CategoryProject, <<"t">>, None, <<x>>) : x \in OneStored(st)}

\* what randomIssueNumber returns to a process: the number of a row of
\* table st, or the smallest number whose id names no row
ConcurrentNumberInputs(st) ==
    LET free == {n \in RandNumbers : SprintfID(PrefixA, n) \notin DOMAIN st}
    IN  {n \in RandNumbers : SprintfID(PrefixA, n) \in OneStored(st)}
          \cup {n \in free : \A m \in free : n <= m}

\* CURRENT_TIMESTAMP of the statements of the two processes, which run
\* within one second
ConcurrentTimestampInputs(st) == {MaxClock}

\* the id the statements of the call name
TargetID(op, in) == IF op = "TransitionState" THEN in[1] ELSE TrimSpace(in[1])

\* process p opens the transaction of the call op and does its reads
BeginTx(p, op, in) ==
    /\ txs[p].phase = "idle"
    /\ txs' = [txs EXCEPT ![p] = [NoTx EXCEPT !.phase = "open", !.op = op, !.in = in,
                                              !.id = TargetID(op, in), !.snap = store,
                                              !.step = "read"]]
    /\ UNCHANGED <<store, mutations, created, budget, last, lock>>

BeginTransitionState(p) ==
    \E in \in ConcurrentTransitionInputs(store) : BeginTx(p, "TransitionState", in)

BeginSetParent(p) ==
    \E in \in ConcurrentSetParentInputs(store) : BeginTx(p, "SetParent", in)

BeginSetBlockedBy(p) ==
    \E in \in ConcurrentSetBlockedByInputs(store) : BeginTx(p, "SetBlockedBy", in)

\* process p returns err from its call, which has made table after of the
\* last committed table
Return(p, err, after) ==
    /\ txs' = [txs EXCEPT ![p] = [@ EXCEPT !.phase = "returned", !.err = err,
                                           !.before = store, !.after = after]]
    /\ store' = after
    /\ budget' = Spent(err)
    /\ UNCHANGED last

UpdateOpen(p) ==
    /\ txs[p].phase = "open"
    /\ txs[p].op \in {"TransitionState", "SetParent", "SetBlockedBy"}

\* the transaction of process p has done its reads and not yet its write
Reading(p) == txs[p].phase = "open" /\ txs[p].step = "read"

\* the checks of the call of process p pass on its snapshot, so that the
\* call gets to its UPDATE
ReachesUpdate(p) ==
    ResultOf(txs[p].op, txs[p].snap, 0, txs[p].in).err \in {ErrNone, ErrConflict}

\* process p takes the write lock with a statement that has changed the
\* table to pending; the change is not committed
HoldLock(p, pending) ==
    /\ txs' = [txs EXCEPT ![p] = [@ EXCEPT !.step = "write", !.before = store,
                                           !.after = pending]]
    /\ lock' = p
    /\ UNCHANGED <<store, mutations, created, budget, last>>

\* process p runs the rest of its TransitionState, SetParent or SetBlockedBy
\* up to the Commit: a call that fails returns, and its deferred Rollback
\* leaves no lock; a call whose UPDATE has changed a row holds the write lock
FinishUpdate(p) ==
    /\ UpdateOpen(p)
    /\ Reading(p)
    /\ ReachesUpdate(p) => lock = 0
    /\ \E now \in ConcurrentTimestampInputs(store) :
        LET res == TxResult(txs[p].op, txs[p].snap, store, now, txs[p].in)
        IN  IF res.err = ErrNone
            THEN HoldLock(p, res.st)
            ELSE /\ Return(p, res.err, store)
                 /\ UNCHANGED <<mutations, created, lock>>

\* tx.Commit of process p: the change is in the table and the lock is free
CommitUpdate(p) ==
    /\ UpdateOpen(p)
    /\ txs[p].step = "write"
    /\ lock = p
    /\ Return(p, ErrNone, txs[p].after)
    /\ mutations' = Mutated(ErrNone, txs[p].id)
    /\ lock' = 0
    /\ UNCHANGED created

\* the UPDATE of process p finds the write lock held by another process
\* until busy_timeout has passed
BusyUpdate(p) ==
    /\ UpdateOpen(p)
    /\ Reading(p)
    /\ ReachesUpdate(p)
    /\ lock \notin {0, p}
    /\ Return(p, ErrBusy, store)
    /\ UNCHANGED <<mutations, created, lock>>

\* process p enters CreateIssue, which checks the prefix, the category and
\* the title before its loop
BeginCreateIssue(p) ==
    /\ txs[p].phase = "idle"
    /\ \E in \in ConcurrentCreateInputs(store) :
        LET invalid == \/ ~projectPrefixRe(TrimSpace(ToLower(in.projectPrefix)))
                       \/ ~IsValidCategory(in.category)
                       \/ TrimSpace(in.title) = <<>>
            entered == [NoTx EXCEPT !.phase = "open", !.op = "CreateIssue", !.in = in,
                                    !.step = "call"]
        IN  txs' = [txs EXCEPT ![p] =
                        IF invalid
                        THEN [entered EXCEPT !.phase = "returned", !.err = ErrInvalidInput,
                                             !.before = store, !.after = store]
                        ELSE entered]
    /\ UNCHANGED <<store, mutations, created, budget, last, lock>>

\* process p opens the transaction of an iteration of the loop and
\* generates the number of the id
BeginAttempt(p) ==
    /\ txs[p].phase = "open"
    /\ txs[p].op = "CreateIssue"
    /\ txs[p].step = "call"
    /\ \E number \in ConcurrentNumberInputs(store) :
        txs' = [txs EXCEPT ![p] = [@ EXCEPT !.step = "read", !.number = number,
                                            !.snap = store]]
    /\ UNCHANGED <<store, mutations, created, budget, last, lock>>

\* the iteration of CreateIssue that generated number and did its reads on
\* table snap, when it goes on while the last committed table is cur:
\* [continue, err, st, id]
TxAttemptResult(snap, cur, t, in, number) ==
    LET prefix == TrimSpace(ToLower(in.projectPrefix))
        issueID == SprintfID(prefix, number)
        a == createAttempt(snap, t, prefix, in.category, TrimSpace(in.title), in.body,
                           in.parentID, in.blockedBy, number)
        out(c, e, st, made) == [continue |-> c, err |-> e, st |-> st, id |-> made]
    IN  IF a.err # ErrNone THEN out(FALSE, a.err, cur, <<>>)
        ELSE IF attemptReads(in.parentID, in.blockedBy) /\ ~SnapshotCurrent(snap, cur)
             THEN out(FALSE, ErrBusy, cur, <<>>)
        ELSE IF isUniqueViolation(cur, issueID) THEN out(TRUE, ErrNone, cur, <<>>)
        ELSE out(FALSE, ErrNone, InsertRow(cur, issueID, a.st[issueID]), issueID)

\* the checks of the iteration of process p pass on its snapshot, so that
\* the iteration gets to its INSERT
ReachesInsert(p) ==
    LET tx == txs[p]
    IN  createAttempt(tx.snap, 0, TrimSpace(ToLower(tx.in.projectPrefix)), tx.in.category,
                      TrimSpace(tx.in.title), tx.in.body, tx.in.parentID, tx.in.blockedBy,
                      tx.number).err = ErrNone

\* NextAttempt as if the loop of CreateIssue did not count its iterations
NextAttemptUncounted(attempt) == attempt

\* the number of the iteration after iteration attempt
NextAttempt(attempt) == attempt + 1

\* process p runs the rest of the iteration up to the Commit: its checks and
\* its INSERT; an iteration that fails returns or goes round the loop, and
\* its Rollback leaves no lock; an iteration whose INSERT has added the row
\* holds the write lock
FinishAttempt(p) ==
    /\ txs[p].op = "CreateIssue"
    /\ Reading(p)
    /\ ReachesInsert(p) => lock = 0
    /\ \E now \in ConcurrentTimestampInputs(store) :
        LET tx == txs[p]
            a == TxAttemptResult(tx.snap, store, now, tx.in, tx.number)
            issueID == SprintfID(TrimSpace(ToLower(tx.in.projectPrefix)), tx.number)
            tried == [tx EXCEPT !.attempts = NextAttempt(@), !.id = issueID,
                                !.collided = isUniqueViolation(store, issueID),
                                !.before = store, !.after = a.st]
            done(e) == [tried EXCEPT !.phase = "returned", !.err = e, !.step = "none"]
        IN  /\ txs' = [txs EXCEPT ![p] =
                          IF a.id # <<>> THEN [tried EXCEPT !.step = "write"]
                          ELSE IF ~a.continue THEN done(a.err)
                          ELSE IF tried.attempts >= maxCreateAttempts THEN done(ErrConflict)
                          ELSE [tried EXCEPT !.step = "call"]]
            /\ lock' = IF a.id # <<>> THEN p ELSE lock
            /\ UNCHANGED <<store, mutations, created, budget, last>>

\* tx.Commit of the iteration of process p: the row is in the table, the
\* lock is free, and CreateIssue returns
CommitAttempt(p) ==
    /\ txs[p].phase = "open"
    /\ txs[p].op = "CreateIssue"
    /\ txs[p].step = "write"
    /\ lock = p
    /\ txs' = [txs EXCEPT ![p] = [@ EXCEPT !.phase = "returned", !.err = ErrNone,
                                           !.step = "none"]]
    /\ store' = txs[p].after
    /\ lock' = 0
    /\ budget' = budget - 1
    /\ mutations' = [x \in DOMAIN txs[p].after |->
                         IF x = txs[p].id THEN 0 ELSE mutations[x]]
    /\ created' = Append(created, [id |-> txs[p].id, category |-> txs[p].in.category])
    /\ UNCHANGED last

\* the INSERT of process p finds the write lock held by another process
\* until busy_timeout has passed
BusyAttempt(p) ==
    /\ txs[p].op = "CreateIssue"
    /\ Reading(p)
    /\ ReachesInsert(p)
    /\ lock \notin {0, p}
    /\ LET tx == txs[p]
           issueID == SprintfID(TrimSpace(ToLower(tx.in.projectPrefix)), tx.number)
       IN  txs' = [txs EXCEPT ![p] =
                      [tx EXCEPT !.phase = "returned", !.err = ErrBusy, !.step = "none",
                                 !.attempts = NextAttempt(@), !.id = issueID,
                                 !.collided = isUniqueViolation(store, issueID),
                                 !.before = store, !.after = store]]
    /\ UNCHANGED <<store, mutations, created, budget, last, lock>>

\* Released as if the lock of a process outlived the process
ReleasedNever(p) == lock

\* the lock after process p has left its transaction without a Commit
Released(p) == IF lock = p THEN 0 ELSE lock

\* process p is killed inside its call: its transaction is never committed,
\* and the lock it may hold ends with the process; step stays where the
\* process was killed
Abandon(p) ==
    /\ txs[p].phase = "open"
    /\ txs' = [txs EXCEPT ![p] = [@ EXCEPT !.phase = "returned", !.err = ErrKilled,
                                           !.before = store, !.after = store]]
    /\ lock' = Released(p)
    /\ UNCHANGED <<store, mutations, created, budget, last>>

NextConcurrent ==
    \E p \in Procs :
        \/ BeginTransitionState(p)
        \/ BeginSetParent(p)
        \/ BeginSetBlockedBy(p)
        \/ FinishUpdate(p)
        \/ CommitUpdate(p)
        \/ BusyUpdate(p)
        \/ BeginCreateIssue(p)
        \/ BeginAttempt(p)
        \/ FinishAttempt(p)
        \/ CommitAttempt(p)
        \/ BusyAttempt(p)
        \/ Abandon(p)

SpecConcurrent == InitConcurrent /\ [][NextConcurrent]_vars

\* what becomes of process p once its call has begun: it is killed, or it
\* goes on with the call
Step(p) ==
    \/ Abandon(p)
    \/ FinishUpdate(p)
    \/ CommitUpdate(p)
    \/ BusyUpdate(p)
    \/ BeginAttempt(p)
    \/ FinishAttempt(p)
    \/ CommitAttempt(p)
    \/ BusyAttempt(p)

\* the processes side by side, each one scheduled again and again: a process
\* inside a call that is not killed goes on with it (the call runs on
\* context.Background(), and a wait for the write lock ends with the lock or
\* with busy_timeout)
SpecFair == SpecConcurrent /\ \A p \in Procs : WF_vars(Step(p))

\* ------------------------------------------------------ configuration file
\* const FileName
FileName == <<"i", "t", "c", "o", "n", "f", "i", "g">>

\* strings.Index of a character: the first place of c in s, 0 when there is none
IndexOf(s, c) ==
    IF \E i \in 1..Len(s) : s[i] = c
    THEN CHOOSE i \in 1..Len(s) : s[i] = c /\ \A j \in 1..(i - 1) : s[j] # c
    ELSE 0

\* strings.Split(s, sep) for a separator of one character
RECURSIVE Split(_, _)
Split(s, sep) ==
    LET i == IndexOf(s, sep)
    IN  IF i = 0 THEN <<s>>
        ELSE <<SubSeq(s, 1, i - 1)>> \o Split(SubSeq(s, i + 1, Len(s)), sep)

\* strings.Join(elems, "/")
RECURSIVE JoinSlash(_)
JoinSlash(elems) ==
    IF elems = <<>> THEN <<>>
    ELSE IF Len(elems) = 1 THEN elems[1]
    ELSE elems[1] \o <<"/">> \o JoinSlash(Tail(elems))

\* strings.HasPrefix
HasPrefix(s, prefix) == Len(s) >= Len(prefix) /\ SubSeq(s, 1, Len(prefix)) = prefix

\* strings.Cut(s, sep) for a separator of one character
Cut(s, sep) ==
    LET i == IndexOf(s, sep)
    IN  IF i = 0 THEN [before |-> s, after |-> <<>>, found |-> FALSE]
        ELSE [before |-> SubSeq(s, 1, i - 1), after |-> SubSeq(s, i + 1, Len(s)),
              found |-> TRUE]

\* filepath.IsAbs
IsAbs(path) == HasPrefix(path, <<"/">>)

\* the elements that filepath.Clean keeps of the elements elems of a path:
\* empty elements and "." go, ".." takes the element before it with it, stays
\* at the head of a relative path and goes at the root
RECURSIVE cleanLoop(_, _, _)
cleanLoop(elems, rooted, out) ==
    IF elems = <<>> THEN out
    ELSE LET e == Head(elems)
         IN  IF e = <<>> \/ e = <<".">> THEN cleanLoop(Tail(elems), rooted, out)
             ELSE IF e = <<".", ".">>
             THEN IF out # <<>> /\ out[Len(out)] # <<".", ".">>
                  THEN cleanLoop(Tail(elems), rooted, SubSeq(out, 1, Len(out) - 1))
                  ELSE IF rooted THEN cleanLoop(Tail(elems), rooted, out)
                  ELSE cleanLoop(Tail(elems), rooted, Append(out, e))
             ELSE cleanLoop(Tail(elems), rooted, Append(out, e))

\* filepath.Clean
Clean(path) ==
    IF path = <<>> THEN <<".">>
    ELSE LET rooted == path[1] = "/"
             out == cleanLoop(Split(path, "/"), rooted, <<>>)
         IN  IF rooted THEN <<"/">> \o JoinSlash(out)
             ELSE IF out = <<>> THEN <<".">>
             ELSE JoinSlash(out)

\* filepath.Join of two elements
Join(a, b) ==
    IF a = <<>> /\ b = <<>> THEN <<>>
    ELSE IF a = <<>> THEN Clean(b)
    ELSE IF b = <<>> THEN Clean(a)
    ELSE Clean(a \o <<"/">> \o b)

\* Dir as if a directory were its own parent
DirStays(path) == path

\* filepath.Dir
Dir(path) ==
    LET seps == {i \in 1..Len(path) : path[i] = "/"}
        last_sep == IF seps = {} THEN 0 ELSE CHOOSE i \in seps : \A j \in seps : j <= i
    IN  Clean(SubSeq(path, 1, last_sep))

\* os.Stat and os.ReadFile see the entry of the path in the file system files
Entry(files, path) ==
    IF path \in DOMAIN files THEN files[path]
    ELSE [kind |-> "absent", readable |-> FALSE, content |-> <<>>]

\* parseLine as if the value of project were matched as it is written
parseLineStrict(path, cfg, key, value) ==
    IF key = <<"d", "b">>
    THEN IF value = <<>> THEN [cfg |-> cfg, err |-> "db cannot be empty"]
         ELSE IF IsAbs(value) THEN [cfg |-> [cfg EXCEPT !.DBPath = value], err |-> ErrNone]
         ELSE [cfg |-> [cfg EXCEPT !.DBPath = Clean(Join(Dir(path), value))],
               err |-> ErrNone]
    ELSE IF key = <<"p", "r", "o", "j", "e", "c", "t">>
    THEN IF ~projectPrefixRe(value) THEN [cfg |-> cfg, err |-> "project must be 3 lowercase alphanumeric chars"]
         ELSE [cfg |-> [cfg EXCEPT !.Project = value], err |-> ErrNone]
    ELSE [cfg |-> cfg, err |-> "unsupported key"]

\* parseLine as if a relative db were resolved against nothing
parseLineUnresolved(path, cfg, key, value) ==
    IF key = <<"d", "b">>
    THEN IF value = <<>> THEN [cfg |-> cfg, err |-> "db cannot be empty"]
         ELSE [cfg |-> [cfg EXCEPT !.DBPath = value], err |-> ErrNone]
    ELSE IF key = <<"p", "r", "o", "j", "e", "c", "t">>
    THEN LET prefix == ToLower(value)
         IN  IF ~projectPrefixRe(prefix) THEN [cfg |-> cfg, err |-> "project must be 3 lowercase alphanumeric chars"]
             ELSE [cfg |-> [cfg EXCEPT !.Project = prefix], err |-> ErrNone]
    ELSE [cfg |-> cfg, err |-> "unsupported key"]

\* the switch of parseFile on the key of a line: the Config and the error
parseLine(path, cfg, key, value) ==
    IF key = <<"d", "b">>
    THEN IF value = <<>> THEN [cfg |-> cfg, err |-> "db cannot be empty"]
         ELSE IF IsAbs(value) THEN [cfg |-> [cfg EXCEPT !.DBPath = value], err |-> ErrNone]
         ELSE [cfg |-> [cfg EXCEPT !.DBPath = Clean(Join(Dir(path), value))],
               err |-> ErrNone]
    ELSE IF key = <<"p", "r", "o", "j", "e", "c", "t">>
    THEN LET prefix == ToLower(value)
         IN  IF ~projectPrefixRe(prefix) THEN [cfg |-> cfg, err |-> "project must be 3 lowercase alphanumeric chars"]
             ELSE [cfg |-> [cfg EXCEPT !.Project = prefix], err |-> ErrNone]
    ELSE [cfg |-> cfg, err |-> "unsupported key"]

\* the loop of parseFile over the lines from line i on
RECURSIVE parseLoop(_, _, _, _)
parseLoop(path, lines, i, cfg) ==
    IF i > Len(lines) THEN [cfg |-> Some(cfg), err |-> ErrNone]
    ELSE LET line == TrimSpace(lines[i])
             cut == Cut(line, "=")
         IN  IF line = <<>> \/ HasPrefix(line, <<"#">>) THEN parseLoop(path, lines, i + 1, cfg)
             ELSE IF ~cut.found THEN [cfg |-> None, err |-> "expected key=value"]
             ELSE LET r == parseLine(path, cfg, TrimSpace(ToLower(cut.before)),
                                     TrimSpace(cut.after))
                  IN  IF r.err # ErrNone THEN [cfg |-> None, err |-> r.err]
                      ELSE parseLoop(path, lines, i + 1, r.cfg)

\* parseFile(path) in the file system files
parseFile(files, path) ==
    IF ~Entry(files, path).readable THEN [cfg |-> None, err |-> "read config"]
    ELSE parseLoop(path, Split(Entry(files, path).content, "\n"), 1,
                   [Path |-> path, DBPath |-> <<>>, Project |-> <<>>])

\* one iteration of the loop of Discover in directory dir: whether Discover
\* returns, what it returns, and the directory of the next iteration
discoverStep(files, dir) ==
    LET candidate == Join(dir, FileName)
        info == Entry(files, candidate)
        parent == Dir(dir)
    IN  IF info.kind = "file"
        THEN [done |-> TRUE, cfg |-> parseFile(files, candidate).cfg,
              err |-> parseFile(files, candidate).err, dir |-> dir]
        ELSE IF info.kind = "denied"
        THEN [done |-> TRUE, cfg |-> None, err |-> "read", dir |-> dir]
        ELSE IF parent = dir
        THEN [done |-> TRUE, cfg |-> None, err |-> ErrNone, dir |-> dir]
        ELSE [done |-> FALSE, cfg |-> None, err |-> ErrNone, dir |-> parent]

\* the working directories of the process: os.Getwd gives a rooted, clean path
StartDirInputs == {<<"/">>, <<"/", "r">>, <<"/", "r", "/", "a">>}

\* the contents of configuration files, "\n" between and after the lines:
\* db=.it/x, project=a4b | project=aaaa | project=A4b, db=.it/x | nothing |
\* # x, a blank line, db=../x | project=a4b, project=aaaa | db= | x | a=b |
\* " dB = x ", db=/x
ContentInputs ==
    { <<"d", "b", "=", ".", "i", "t", "/", "x", "\n",
        "p", "r", "o", "j", "e", "c", "t", "=", "a", "4", "b", "\n">>,
      <<"p", "r", "o", "j", "e", "c", "t", "=", "a", "a", "a", "a", "\n">>,
      <<"p", "r", "o", "j", "e", "c", "t", "=", "A", "4", "b", "\n",
        "d", "b", "=", ".", "i", "t", "/", "x">>,
      <<>>,
      <<"#", " ", "x", "\n", "\n", "d", "b", "=", ".", ".", "/", "x", "\n">>,
      <<"p", "r", "o", "j", "e", "c", "t", "=", "a", "4", "b", "\n",
        "p", "r", "o", "j", "e", "c", "t", "=", "a", "a", "a", "a", "\n">>,
      <<"d", "b", "=", "\n">>,
      <<"x", "\n">>,
      <<"a", "=", "b", "\n">>,
      <<" ", "d", "B", " ", "=", " ", "x", " ", "\n", "d", "b", "=", "/", "x", "\n">> }

\* what the file system may hold under the name itconfig in a directory:
\* nothing, a directory, something Stat fails on, a file that cannot be read,
\* a file with content
EntryInputs ==
    {[kind |-> "absent", readable |-> FALSE, content |-> <<>>],
     [kind |-> "dir", readable |-> FALSE, content |-> <<>>],
     [kind |-> "denied", readable |-> FALSE, content |-> <<>>],
     [kind |-> "file", readable |-> FALSE, content |-> <<>>]}
    \cup {[kind |-> "file", readable |-> TRUE, content |-> c] : c \in ContentInputs}

\* the file systems: an entry under the name itconfig in each directory
FilesInputs == [{Join(d, FileName) : d \in StartDirInputs} -> EntryInputs]

\* the process looks for its configuration from its working directory
Discover ==
    /\ last = Idle
    /\ \E startDir \in StartDirInputs, files \in FilesInputs :
           last' = [op |-> "Discover", phase |-> "loop", startDir |-> startDir,
                    files |-> files, dir |-> startDir, cfg |-> None, err |-> ErrNone]
    /\ UNCHANGED <<store, mutations, created, budget, txs, lock>>

\* one iteration of the loop of Discover
DiscoverLoop ==
    /\ last.op = "Discover"
    /\ last.phase = "loop"
    /\ LET r == discoverStep(last.files, last.dir)
       IN  last' = [last EXCEPT !.phase = IF r.done THEN "returned" ELSE "loop",
                                !.dir = r.dir, !.cfg = r.cfg, !.err = r.err]
    /\ UNCHANGED <<store, mutations, created, budget, txs, lock>>

\* the process is killed inside Discover
DiscoverKilled ==
    /\ last.op = "Discover"
    /\ last.phase = "loop"
    /\ last' = [last EXCEPT !.phase = "killed"]
    /\ UNCHANGED <<store, mutations, created, budget, txs, lock>>

\* the process goes on after Discover has returned, or is gone
DiscoverReturn ==
    /\ last.op = "Discover"
    /\ last.phase \in {"returned", "killed"}
    /\ Exit

NextConfig == Discover \/ DiscoverLoop \/ DiscoverKilled \/ DiscoverReturn

\* the start of a process up to its configuration; a process inside the loop
\* of Discover that is not killed goes on with it
SpecConfig == Init /\ [][NextConfig]_vars /\ WF_vars(DiscoverKilled \/ DiscoverLoop)

\* ------------------------------------------------------------- properties
\* the process has returned from a call of op on a row that was in the table
Returned(op) == last.op = op /\ last.id \in DOMAIN last.before

\* the row of the call before it and after it
RowBefore == last.before[last.id]
RowAfter == store[last.id]

\* the transition table as the specification lists it
ListedEdges ==
    {<<StateTodo, StateInProgress>>, <<StateTodo, StateBlocked>>, <<StateTodo, StateCanceled>>,
     <<StateInProgress, StateBlocked>>, <<StateInProgress, StateDone>>,
     <<StateInProgress, StateTodo>>, <<StateInProgress, StateCanceled>>,
     <<StateBlocked, StateTodo>>, <<StateBlocked, StateInProgress>>,
     <<StateBlocked, StateCanceled>>,
     <<StateDone, StateTodo>>, <<StateCanceled, StateTodo>>}

\* the call gave no expected version, or the version the row had
VersionCurrent == last.expectedVersion \in {None, Some(RowBefore.version)}

\* every dependency of the row was done when the call was made
DepsDone(r, st) == \A i \in 1..Len(r.blocked_by) : st[r.blocked_by[i]].state = StateDone

\* the first three characters of a stored id: its project prefix
PrefixChars(id) == SubSeq(id, 1, 3)

ListedEdgesSucceed ==
    (/\ Returned("TransitionState")
     /\ <<RowBefore.state, last.to>> \in ListedEdges
     /\ VersionCurrent
     /\ last.to = StateInProgress => DepsDone(RowBefore, last.before))
        => /\ last.err = ErrNone
           /\ RowAfter.state = last.to
           /\ RowAfter.version = RowBefore.version + 1

\* a row with a dependency entered in_progress once the dependency was done
ListedEdgesWitness ==
    /\ Returned("TransitionState")
    /\ last.err = ErrNone
    /\ last.to = StateInProgress
    /\ RowBefore.blocked_by # <<>>
    /\ RowBefore.state = StateTodo
    /\ RowAfter.state = StateInProgress

\* C3: a TransitionState between two different states over an edge that is
\* not listed fails with invalid state transition and changes nothing
UnlistedEdgesFail ==
    (/\ Returned("TransitionState")
     /\ last.to \in AllStates
     /\ last.to # RowBefore.state
     /\ <<RowBefore.state, last.to>> \notin ListedEdges)
        => /\ last.err = ErrInvalidStateTransition
           /\ store = last.before

\* done -> in_progress was refused
UnlistedEdgesWitness ==
    /\ Returned("TransitionState")
    /\ RowBefore.state = StateDone
    /\ last.to = StateInProgress
    /\ last.err = ErrInvalidStateTransition

\* C4: a TransitionState into in_progress over a listed edge of a row that
\* has a dependency that is not done fails with invalid input and changes
\* nothing, and no transition into in_progress succeeds while a dependency
\* of the row is not done
InProgressGate ==
    /\ (/\ Returned("TransitionState")
        /\ last.to = StateInProgress
        /\ <<RowBefore.state, last.to>> \in ListedEdges
        /\ ~DepsDone(RowBefore, last.before))
           => /\ last.err = ErrInvalidInput
              /\ store = last.before
    /\ (/\ Returned("TransitionState")
        /\ last.to = StateInProgress
        /\ last.err = ErrNone)
           => DepsDone(RowBefore, last.before)

\* the gate refused a row whose dependency was canceled
InProgressGateWitness ==
    /\ Returned("TransitionState")
    /\ last.to = StateInProgress
    /\ last.err = ErrInvalidInput
    /\ RowBefore.blocked_by # <<>>
    /\ last.before[RowBefore.blocked_by[1]].state = StateCanceled

\* C5: a TransitionState, SetParent or SetBlockedBy with an expected version
\* that is not the version of the row fails and changes nothing
StaleVersionRejected ==
    (/\ \/ Returned("TransitionState")
        \/ Returned("SetParent")
        \/ Returned("SetBlockedBy")
     /\ last.expectedVersion # None
     /\ last.expectedVersion[1] # RowBefore.version)
        => /\ last.err # ErrNone
           /\ store = last.before

\* a transition of a row at version 3 that expected version 2 ended in conflict
StaleVersionWitness ==
    /\ Returned("TransitionState")
    /\ RowBefore.version = 3
    /\ last.expectedVersion = Some(2)
    /\ last.err = ErrConflict

\* C6: the version of a row is 1 after its creation, a successful
\* TransitionState, SetParent or SetBlockedBy adds exactly 1 to it, no call
\* lowers the version of any row, and a row that n mutations succeeded on
\* has version 1 + n
VersionCounter ==
    /\ \A id \in DOMAIN store : store[id].version = 1 + mutations[id]
    /\ (last.op = "CreateIssue" /\ last.err = ErrNone) => store[last.id].version = 1
    /\ (/\ \/ Returned("TransitionState")
           \/ Returned("SetParent")
           \/ Returned("SetBlockedBy")
        /\ last.err = ErrNone)
           => RowAfter.version = RowBefore.version + 1
    /\ last # Idle =>
           \A id \in DOMAIN last.before :
               /\ id \in DOMAIN store
               /\ store[id].version >= last.before[id].version
               /\ (id # last.id \/ last.err # ErrNone)
                      => store[id].version = last.before[id].version

\* a SetBlockedBy took a row from version 2 to version 3
VersionCounterWitness ==
    /\ Returned("SetBlockedBy")
    /\ last.err = ErrNone
    /\ mutations[last.id] = 2
    /\ RowAfter.version = 3

\* C7: a TransitionState of a row to the state it is in succeeds and leaves
\* state, version and closed_at of the row as they were, whatever its
\* dependencies
SelfTransitionNoOp ==
    (/\ Returned("TransitionState")
     /\ last.to = RowBefore.state
     /\ last.expectedVersion = None)
        => /\ last.err = ErrNone
           /\ RowAfter.state = RowBefore.state
           /\ RowAfter.version = RowBefore.version
           /\ RowAfter.closed_at = RowBefore.closed_at

\* C8: in every committed state closed_at of a row is set exactly when its
\* state is done or canceled
ClosedAtInvariant ==
    \A id \in DOMAIN store :
        store[id].closed_at # None <=> store[id].state \in {StateDone, StateCanceled}

\* a done row was reopened and its closed_at cleared
ClosedAtWitness ==
    /\ Returned("TransitionState")
    /\ last.err = ErrNone
    /\ RowBefore.state = StateDone
    /\ RowBefore.closed_at # None
    /\ RowAfter.state = StateTodo
    /\ RowAfter.closed_at = None

\* C9: in every committed state the blocked_by of a row has no entry twice,
\* does not hold the id of the row, and holds only ids of stored rows of the
\* prefix of the row
BlockedByInvariant ==
    \A id \in DOMAIN store :
        LET bb == store[id].blocked_by
        IN  /\ \A i, j \in 1..Len(bb) : bb[i] = bb[j] => i = j
            /\ \A i \in 1..Len(bb) :
                   /\ bb[i] # id
                   /\ bb[i] \in DOMAIN store
                   /\ PrefixChars(bb[i]) = PrefixChars(id)

\* a SetBlockedBy with an entry given twice stored it once
BlockedByWitness ==
    /\ Returned("SetBlockedBy")
    /\ last.err = ErrNone
    /\ Len(last.blockedBy) = 2
    /\ last.blockedBy[1] = last.blockedBy[2]
    /\ RowAfter.blocked_by = <<last.blockedBy[1]>>

\* the arguments of a CreateIssue break a rule of creation on table st
CreateViolation(in, st) ==
    LET prefix == TrimSpace(ToLower(in.projectPrefix))
        hasParent == in.parentID # None /\ TrimSpace(in.parentID[1]) # <<>>
        pid == TrimSpace(in.parentID[1])
        dep(i) == ToLower(TrimSpace(in.blockedBy[i]))
    IN  \/ ~projectPrefixRe(prefix)
        \/ in.category \notin AllCategories
        \/ TrimSpace(in.title) = <<>>
        \/ in.category \in {CategoryTask, CategoryWorkstream} /\ ~hasParent
        \/ in.category = CategoryProject /\ hasParent
        \/ hasParent /\ pid \notin DOMAIN st
        \/ /\ hasParent
           /\ pid \in DOMAIN st
           /\ \/ PrefixChars(pid) # prefix
              \/ in.category = CategoryTask /\ st[pid].category # CategoryWorkstream
              \/ in.category = CategoryWorkstream /\ st[pid].category # CategoryProject
        \/ \E i \in 1..Len(in.blockedBy) :
               /\ dep(i) # <<>>
               /\ \/ ~issueIDRe(dep(i))
                  \/ dep(i) \notin DOMAIN st
                  \/ PrefixChars(dep(i)) # prefix

\* the parent or a dependency of a CreateIssue names no row of table st
CreateNamesMissing(in, st) ==
    \/ in.parentID # None /\ TrimSpace(in.parentID[1]) \notin DOMAIN st
    \/ \E i \in 1..Len(in.blockedBy) : ToLower(TrimSpace(in.blockedBy[i])) \notin DOMAIN st

\* C10: a CreateIssue that breaks a rule of creation returns invalid input,
\* or not found when the parent or a dependency is missing, and leaves the
\* table as it was
NoPartialCreate ==
    (last.op = "CreateIssue" /\ CreateViolation(last.in, last.before))
        => /\ last.err \in {ErrInvalidInput, ErrNotFound}
           /\ last.err = ErrNotFound => CreateNamesMissing(last.in, last.before)
           /\ store = last.before

\* a CreateIssue under a parent of the wrong category was refused on a table
\* that holds rows
NoPartialCreateWitness ==
    /\ last.op = "CreateIssue"
    /\ last.err = ErrInvalidInput
    /\ last.in.category = CategoryWorkstream
    /\ last.in.parentID # None
    /\ last.in.parentID[1] \in DOMAIN last.before
    /\ last.before[last.in.parentID[1]].category = CategoryTask
    /\ store = last.before

\* the process has returned from a TransitionState, SetParent or SetBlockedBy
ReturnedUpdate == last.op \in {"TransitionState", "SetParent", "SetBlockedBy"}

StaleCall ==
    /\ ReturnedUpdate
    /\ last.id \in DOMAIN last.before
    /\ last.expectedVersion # None
    /\ last.expectedVersion[1] # RowBefore.version

\* the error of the call of `last` had it been made with no expected version
PlainErr ==
    CASE last.op = "TransitionState" ->
             TransitionStateResult(last.before, 0, last.id, last.to, None).err
      [] last.op = "SetParent" ->
             SetParentResult(last.before, 0, last.id, last.parentID, None).err
      [] last.op = "SetBlockedBy" ->
             SetBlockedByResult(last.before, 0, last.id, last.blockedBy, None).err

\* C12 as stated: a TransitionState, SetParent or SetBlockedBy on a stored row
\* with an expected version that is not the version of the row returns
\* conflict and no other error
StaleIsConflict == StaleCall => last.err = ErrConflict

\* C12 amended: such a call returns conflict when it would have succeeded
\* with no expected version, and otherwise returns the error it would have
\* returned with no expected version
StaleIsConflictWhenValid ==
    StaleCall => last.err = (IF PlainErr = ErrNone THEN ErrConflict ELSE PlainErr)

\* a SetParent with a stale expected version ended in conflict
StaleIsConflictWitness ==
    /\ Returned("SetParent")
    /\ StaleCall
    /\ last.err = ErrConflict

\* C13 as stated: a TransitionState, SetParent or SetBlockedBy on an id that
\* names no row returns not found, with or without an expected version, and
\* conflict is returned only for a stored row whose version is not the
\* expected one
MissingIsNotFound ==
    /\ (ReturnedUpdate /\ last.id \notin DOMAIN last.before) => last.err = ErrNotFound
    /\ (ReturnedUpdate /\ last.err = ErrConflict) => StaleCall

\* C13 amended: the same, for calls whose id is not blank and, for
\* TransitionState, whose target is one of the five states
MissingIsNotFoundWhenWellFormed ==
    /\ (/\ ReturnedUpdate
        /\ last.id \notin DOMAIN last.before
        /\ last.id # <<>>
        /\ last.op = "TransitionState" => last.to \in AllStates)
           => last.err = ErrNotFound
    /\ (ReturnedUpdate /\ last.err = ErrConflict) => StaleCall

\* a SetBlockedBy with an expected version on an id that names no row of a
\* table with rows returned not found
MissingIsNotFoundWitness ==
    /\ last.op = "SetBlockedBy"
    /\ last.before # <<>>
    /\ last.id \notin DOMAIN last.before
    /\ last.expectedVersion # None
    /\ last.err = ErrNotFound

\* the arguments of the CreateIssue of `last` break no rule of creation
ValidCreate == last.op = "CreateIssue" /\ ~CreateViolation(last.in, last.before)

\* the id made in iteration i of the CreateIssue of `last`, and whether a row had it
GeneratedID(i) == SprintfID(TrimSpace(ToLower(last.in.projectPrefix)), last.numbers[i])
Collides(i) == GeneratedID(i) \in DOMAIN last.before

\* C18: a CreateIssue with valid arguments makes at most 8 attempts, succeeds
\* in the first attempt whose generated id no row has, and returns conflict
\* with no row written when the ids of all 8 attempts are taken; a
\* CreateIssue that fails validation ends in its first attempt
BoundedAllocation ==
    /\ last.op = "CreateIssue" => last.attempts <= 8
    /\ ValidCreate =>
           \A i \in 1..8 :
               (~Collides(i) /\ \A j \in 1..(i - 1) : Collides(j))
                   => /\ last.err = ErrNone
                      /\ last.attempts = i
                      /\ last.id = GeneratedID(i)
    /\ (ValidCreate /\ \A i \in 1..8 : Collides(i))
           => /\ last.err = ErrConflict
              /\ last.attempts = 8
              /\ store = last.before
    /\ (last.op = "CreateIssue" /\ ~ValidCreate)
           => /\ last.err # ErrNone
              /\ last.attempts <= 1

\* the entries of a raw dependency list, trimmed and lowercased, without the
\* blank ones and without repetitions, in the order of their first occurrence
RECURSIVE CleanList(_, _)
CleanList(raw, kept) ==
    IF raw = <<>> THEN kept
    ELSE LET e == ToLower(TrimSpace(Head(raw)))
         IN  IF e = <<>> \/ \E i \in 1..Len(kept) : kept[i] = e
             THEN CleanList(Tail(raw), kept)
             ELSE CleanList(Tail(raw), Append(kept, e))

\* C19: the row of a successful CreateIssue is new, in state todo, at
\* version 1, with closed_at null, the category asked for, the validated
\* parent (null for a project) and the normalized dependency list
CreatedRow ==
    (last.op = "CreateIssue" /\ last.err = ErrNone) =>
        LET r == store[last.id]
        IN  /\ last.id \notin DOMAIN last.before
            /\ DOMAIN store = DOMAIN last.before \cup {last.id}
            /\ r.state = StateTodo
            /\ r.version = 1
            /\ r.closed_at = None
            /\ r.category = last.in.category
            /\ r.parent_id = (IF last.in.category = CategoryProject THEN None
                              ELSE Some(TrimSpace(last.in.parentID[1])))
            /\ r.blocked_by = CleanList(last.in.blockedBy, <<>>)

\* a row was created from a dependency list of three raw entries that
\* normalize to one
CreatedRowWitness ==
    /\ last.op = "CreateIssue"
    /\ last.err = ErrNone
    /\ Len(last.in.blockedBy) = 3
    /\ Len(store[last.id].blocked_by) = 1

\* C20: a SetParent on a stored row, with no expected version or the current
\* one, succeeds exactly when a task is given a stored workstream of its
\* prefix, a workstream a stored project of its prefix, and a project no
\* parent; otherwise it returns not found when the parent a task or
\* workstream is given names no row, and invalid input in the other cases;
\* on success parent_id is the parent given
SetParentRule ==
    (Returned("SetParent") /\ VersionCurrent) =>
        LET r == RowBefore
            given == last.parentID # None /\ TrimSpace(last.parentID[1]) # <<>>
            pid == TrimSpace(last.parentID[1])
            required == IF r.category = CategoryTask THEN CategoryWorkstream
                        ELSE CategoryProject
            ruleMet ==
                IF r.category = CategoryProject THEN ~given
                ELSE /\ given
                     /\ pid \in DOMAIN last.before
                     /\ last.before[pid].category = required
                     /\ PrefixChars(pid) = PrefixChars(last.id)
        IN  /\ last.err = ErrNone <=> ruleMet
            /\ last.err = ErrNone =>
                   RowAfter.parent_id = (IF given THEN Some(pid) ELSE None)
            /\ ~ruleMet =>
                   last.err = (IF r.category # CategoryProject /\ given
                                    /\ pid \notin DOMAIN last.before
                               THEN ErrNotFound ELSE ErrInvalidInput)

\* a task was given the workstream it hangs under, and the call succeeded
SetParentRuleWitness ==
    /\ Returned("SetParent")
    /\ RowBefore.category = CategoryTask
    /\ last.err = ErrNone
    /\ RowAfter.parent_id = Some(TrimSpace(last.parentID[1]))

\* ------------------------------------------- properties of side-by-side calls
\* process p has returned from a TransitionState, SetParent or SetBlockedBy
ReturnedTx(p) ==
    /\ txs[p].phase = "returned"
    /\ txs[p].op \in {"TransitionState", "SetParent", "SetBlockedBy"}

\* p and q ran a TransitionState, SetParent or SetBlockedBy on the same row,
\* both with the version as expected version that the row had when each of
\* them read it
SameVersionRace(p, q) ==
    /\ p # q
    /\ ReturnedTx(p)
    /\ ReturnedTx(q)
    /\ txs[p].id = txs[q].id
    /\ txs[p].in[3] # None
    /\ txs[p].in[3] = txs[q].in[3]
    /\ txs[p].snap[txs[p].id].version = txs[p].in[3][1]
    /\ txs[q].snap[txs[q].id].version = txs[q].in[3][1]

\* C14: when two processes run a TransitionState, SetParent or SetBlockedBy
\* side by side on the same row, both expecting the version v the row has,
\* at most one of them succeeds; the one that fails leaves the table as it
\* was, and when one succeeds the row ends as that process wrote it, at
\* version v + 1
CompareAndSwap ==
    \A p, q \in Procs :
        SameVersionRace(p, q) =>
            /\ ~(txs[p].err = ErrNone /\ txs[q].err = ErrNone)
            /\ txs[p].err # ErrNone => txs[p].after = txs[p].before
            /\ txs[p].err = ErrNone =>
                   /\ store[txs[p].id] = txs[p].after[txs[p].id]
                   /\ store[txs[p].id].version = txs[p].in[3][1] + 1

\* two processes raced on one row with the same expected version: one has
\* committed, and the other came to its UPDATE after that commit and failed
CompareAndSwapWitness ==
    \E p, q \in Procs :
        /\ SameVersionRace(p, q)
        /\ txs[p].err = ErrNone
        /\ txs[q].err = ErrBusy
        /\ txs[q].before = txs[p].after
        /\ store[txs[p].id].version = txs[p].in[3][1] + 1

\* p and q run a TransitionState on the same row, both with no expected
\* version, and p has returned
PlainTransitionRace(p, q) ==
    /\ p # q
    /\ txs[p].phase = "returned"
    /\ txs[p].op = "TransitionState"
    /\ txs[q].phase # "idle"
    /\ txs[q].op = "TransitionState"
    /\ txs[p].id = txs[q].id
    /\ txs[p].in[3] = None
    /\ txs[q].in[3] = None

\* C15: when two processes run a TransitionState side by side on the same
\* row with no expected version, every change of state that is committed
\* keeps the state or follows a listed edge from the state the row had just
\* before the commit, and a process whose row has changed state since it
\* read it writes nothing
LegalUnderInterleaving ==
    \A p, q \in Procs :
        PlainTransitionRace(p, q) =>
            LET was == txs[p].before[txs[p].id].state
                is == txs[p].after[txs[p].id].state
            IN  /\ was = is \/ <<was, is>> \in ListedEdges
                /\ txs[p].snap[txs[p].id].state # was => txs[p].after = txs[p].before

\* one process has committed todo -> canceled, and the other, which had read
\* the row as todo and asked for in_progress, has failed on the canceled row
LegalUnderInterleavingWitness ==
    \E p, q \in Procs :
        /\ PlainTransitionRace(p, q)
        /\ txs[q].phase = "returned"
        /\ txs[q].err = ErrNone
        /\ txs[q].in[2] = StateCanceled
        /\ txs[p].in[2] = StateInProgress
        /\ txs[p].snap[txs[p].id].state = StateTodo
        /\ txs[p].before[txs[p].id].state = StateCanceled
        /\ txs[p].err = ErrBusy
        /\ store[txs[p].id].state = StateCanceled

\* process p has returned from a TransitionState into in_progress
ReturnedInProgress(p) ==
    /\ txs[p].phase = "returned"
    /\ txs[p].op = "TransitionState"
    /\ txs[p].in[2] = StateInProgress

\* C16: every TransitionState into in_progress that commits, commits on a
\* table in which every entry of blocked_by of the row is done, both just
\* before and just after the commit; none commits after a dependency it has
\* read as done has been reopened
GateUnderInterleaving ==
    \A p \in Procs :
        (ReturnedInProgress(p) /\ txs[p].err = ErrNone) =>
            /\ DepsDone(txs[p].after[txs[p].id], txs[p].after)
            /\ DepsDone(txs[p].after[txs[p].id], txs[p].before)

\* a process read the dependency of the row as done and asked for
\* in_progress; the other process reopened the dependency and committed
\* first, and the first process failed
GateUnderInterleavingWitness ==
    \E p, q \in Procs :
        /\ p # q
        /\ ReturnedInProgress(p)
        /\ txs[p].snap[txs[p].id].blocked_by = <<txs[q].id>>
        /\ txs[p].snap[txs[q].id].state = StateDone
        /\ txs[q].phase = "returned"
        /\ txs[q].op = "TransitionState"
        /\ txs[q].in[2] = StateTodo
        /\ txs[q].err = ErrNone
        /\ txs[p].before[txs[q].id].state = StateTodo
        /\ txs[p].err = ErrBusy
        /\ store[txs[p].id].state = StateTodo

\* process p has finished an iteration of the loop of a CreateIssue
Attempted(p) ==
    /\ txs[p].op = "CreateIssue"
    /\ txs[p].attempts > 0
    /\ txs[p].err # ErrKilled

\* an iteration of CreateIssue leaves every row that was in the table as it was
CreateNeverOverwrites ==
    \A p \in Procs :
        Attempted(p) => \A x \in DOMAIN txs[p].before : txs[p].after[x] = txs[p].before[x]

\* C17: a CreateIssue never changes a row that is in the table, the id of
\* the row it adds is the id of no row that was there, and an iteration of a
\* CreateIssue with valid arguments whose generated id is the id of a row
\* writes nothing and is followed by another iteration with a new id (or by
\* conflict after the eighth)
IdsNeverReused ==
    \A p \in Procs :
        Attempted(p) =>
            /\ \A x \in DOMAIN txs[p].before : txs[p].after[x] = txs[p].before[x]
            /\ (txs[p].phase = "returned" /\ txs[p].err = ErrNone)
                   => txs[p].id \notin DOMAIN txs[p].before
            /\ (txs[p].collided /\ ~CreateViolation(txs[p].in, txs[p].snap))
                   => /\ txs[p].after = txs[p].before
                      /\ \/ txs[p].phase = "open"
                         \/ txs[p].err = ErrConflict /\ txs[p].attempts = maxCreateAttempts

\* ------------------------------------------------- properties of the lists
\* every entry of the raw list that is not blank is a well-formed id, is not
\* the holder, and names a row of table st of the prefix of the holder
ResolvableList(raw, holder, st) ==
    \A i \in 1..Len(raw) :
        LET e == ToLower(TrimSpace(raw[i]))
        IN  e # <<>> => /\ issueIDRe(e)
                        /\ e # holder
                        /\ e \in DOMAIN st
                        /\ PrefixChars(e) = PrefixChars(holder)

\* no two entries of the raw list that are not blank name the same id
NoRepeats(raw) ==
    \A i, j \in 1..Len(raw) :
        (ToLower(TrimSpace(raw[i])) = ToLower(TrimSpace(raw[j])) /\ i # j)
            => ToLower(TrimSpace(raw[i])) = <<>>

\* C21: a SetBlockedBy on a stored row in any state, with no expected version
\* or the current one and a list of distinct resolvable entries, succeeds
\* whatever the states of the rows it names: blocked_by becomes the
\* normalized list, version grows by 1, the state and every other row stay
SetBlockedByUngated ==
    (/\ Returned("SetBlockedBy")
     /\ VersionCurrent
     /\ ResolvableList(last.blockedBy, last.id, last.before)
     /\ NoRepeats(last.blockedBy))
        => /\ last.err = ErrNone
           /\ RowAfter.blocked_by = CleanList(last.blockedBy, <<>>)
           /\ RowAfter.version = RowBefore.version + 1
           /\ RowAfter.state = RowBefore.state
           /\ \A x \in DOMAIN last.before \ {last.id} : store[x] = last.before[x]

\* a row that is in progress was given a dependency that is not done
SetBlockedByUngatedWitness ==
    /\ Returned("SetBlockedBy")
    /\ last.err = ErrNone
    /\ RowAfter.state = StateInProgress
    /\ Len(RowAfter.blocked_by) = 1
    /\ store[RowAfter.blocked_by[1]].state = StateTodo

\* the raw list names the holder
NamesHolder(raw, holder) == \E i \in 1..Len(raw) : ToLower(TrimSpace(raw[i])) = holder

\* C22 as stated: a SetBlockedBy on a stored row whose list names an id twice
\* or names the row itself, and a CreateIssue whose list names an id twice,
\* return invalid input
RepeatsAndSelfRejected ==
    /\ (Returned("SetBlockedBy")
          /\ (~NoRepeats(last.blockedBy) \/ NamesHolder(last.blockedBy, last.id)))
           => last.err = ErrInvalidInput
    /\ (last.op = "CreateIssue" /\ ~NoRepeats(last.in.blockedBy))
           => last.err = ErrInvalidInput

\* C22 amended: a SetBlockedBy whose list names the row itself fails and
\* writes nothing, with invalid input when the other entries resolve; no
\* CreateIssue stores the id of the new row in its blocked_by; a list that
\* names an id twice is not refused for that: when its entries resolve the
\* call succeeds and stores the id once
SelfRejectedRepeatsMerged ==
    /\ (Returned("SetBlockedBy") /\ NamesHolder(last.blockedBy, last.id))
           => /\ last.err \in {ErrInvalidInput, ErrNotFound}
              /\ store = last.before
              /\ (\A i \in 1..Len(last.blockedBy) :
                      \/ ToLower(TrimSpace(last.blockedBy[i])) = last.id
                      \/ ResolvableList(<<last.blockedBy[i]>>, last.id, last.before))
                     => last.err = ErrInvalidInput
    /\ (last.op = "CreateIssue" /\ last.err = ErrNone)
           => ~NamesHolder(store[last.id].blocked_by, last.id)
    /\ (/\ Returned("SetBlockedBy")
        /\ VersionCurrent
        /\ ~NoRepeats(last.blockedBy)
        /\ ResolvableList(last.blockedBy, last.id, last.before))
           => /\ last.err = ErrNone
              /\ RowAfter.blocked_by = CleanList(last.blockedBy, <<>>)

\* a SetBlockedBy that named the row itself and nothing else was refused
SelfRejectedWitness ==
    /\ Returned("SetBlockedBy")
    /\ last.blockedBy = <<last.id>>
    /\ last.err = ErrInvalidInput
    /\ store = last.before

\* C23: on a list whose entries that are not blank are well-formed, are not
\* the holder and name rows of the prefix of the holder, normalizeBlockedByTx
\* succeeds and returns the entries trimmed and lowercased, without the
\* blank ones and without later repeats, in the order of first occurrence;
\* checked on the lists of SetBlockedBy and of the iterations of CreateIssue
NormalizationResult ==
    /\ (Returned("SetBlockedBy")
          /\ ResolvableList(last.blockedBy, last.id, last.before))
           => normalizeBlockedByTx(last.before, last.id, PrefixChars(last.id), last.blockedBy)
                  = <<ErrNone, CleanList(last.blockedBy, <<>>)>>
    /\ last.op = "CreateIssue" =>
           \A i \in 1..last.attempts :
               ResolvableList(last.in.blockedBy, GeneratedID(i), last.before)
                   => normalizeBlockedByTx(last.before, GeneratedID(i),
                                           PrefixChars(GeneratedID(i)), last.in.blockedBy)
                          = <<ErrNone, CleanList(last.in.blockedBy, <<>>)>>

\* a SetBlockedBy gave an id, a blank entry and the id again in capitals with
\* spaces around it, and normalization returned the id once
NormalizationResultWitness ==
    /\ Returned("SetBlockedBy")
    /\ Len(last.blockedBy) = 3
    /\ last.blockedBy[3] # last.blockedBy[1]
    /\ normalizeBlockedByTx(last.before, last.id, PrefixChars(last.id), last.blockedBy)
           = <<ErrNone, <<last.blockedBy[1]>>>>
    /\ last.err = ErrNone

\* C24: when normalizeBlockedByTx succeeds on a list with result L, it
\* succeeds on L for the same holder and table with result L (checked on the
\* lists of SetBlockedBy and of the iterations of CreateIssue); and a
\* SetBlockedBy that gives a row the list it has leaves blocked_by as it was
NormalizationIdempotent ==
    /\ Returned("SetBlockedBy") =>
           LET first == normalizeBlockedByTx(last.before, last.id, PrefixChars(last.id),
                                             last.blockedBy)
           IN  first[1] = ErrNone =>
                   normalizeBlockedByTx(last.before, last.id, PrefixChars(last.id), first[2])
                       = first
    /\ last.op = "CreateIssue" =>
           \A i \in 1..last.attempts :
               LET first == normalizeBlockedByTx(last.before, GeneratedID(i),
                                                 PrefixChars(GeneratedID(i)), last.in.blockedBy)
               IN  first[1] = ErrNone =>
                       normalizeBlockedByTx(last.before, GeneratedID(i),
                                            PrefixChars(GeneratedID(i)), first[2]) = first
    /\ (Returned("SetBlockedBy") /\ VersionCurrent /\ last.blockedBy = RowBefore.blocked_by)
           => /\ last.err = ErrNone
              /\ RowAfter.blocked_by = RowBefore.blocked_by

\* a SetBlockedBy gave a row the one dependency it had, and the list stayed
NormalizationIdempotentWitness ==
    /\ Returned("SetBlockedBy")
    /\ Len(RowBefore.blocked_by) = 1
    /\ last.blockedBy = RowBefore.blocked_by
    /\ last.err = ErrNone
    /\ RowAfter.blocked_by = RowBefore.blocked_by
    /\ RowAfter.version = RowBefore.version + 1

\* ------------------------------------------------ properties of the queries
\* the nodes of a forest, each as <<id, id of the node it hangs under>>
\* (None for a root), a node before the nodes below it
RECURSIVE Flatten(_, _)
Flatten(forest, parent) ==
    IF forest = <<>> THEN <<>>
    ELSE <<<<Head(forest).Issue.ID, parent>>>>
           \o Flatten(Head(forest).Children, Some(Head(forest).Issue.ID))
           \o Flatten(Tail(forest), parent)

\* the prefix argument of the call of `last` as the call reads it
AskedPrefix == ToLower(TrimSpace(last.projectPrefix))

\* the rows of the table that the prefix argument stands for: every row for a
\* blank argument, the rows of the project for a project prefix
AskedRows ==
    IF AskedPrefix = <<>> THEN DOMAIN last.before
    ELSE {id \in DOMAIN last.before : PrefixChars(id) = AskedPrefix}

\* the call of `last` was a Tree of everything or of a project
TreeOfProject ==
    /\ last.op = "Tree"
    /\ AskedPrefix = <<>> \/ projectPrefixRe(AskedPrefix)

\* C25: Tree of a project (or of everything) succeeds, its roots are exactly
\* the rows of the project with null parent_id, every row of the project is
\* exactly one node of the forest, and hangs under the node of its parent_id
TreeShape ==
    TreeOfProject =>
        LET flat == Flatten(last.out, None)
        IN  /\ last.err = ErrNone
            /\ {last.out[i].Issue.ID : i \in 1..Len(last.out)}
                   = {id \in AskedRows : last.before[id].parent_id = None}
            /\ Len(flat) = Cardinality(AskedRows)
            /\ \A id \in AskedRows :
                   \E k \in 1..Len(flat) :
                       /\ flat[k] = <<id, last.before[id].parent_id>>
                       /\ \A j \in 1..Len(flat) : flat[j][1] = id => j = k

\* Tree of a project returned one root with two children
TreeShapeWitness ==
    /\ TreeOfProject
    /\ AskedPrefix = PrefixA
    /\ Len(last.out) = 1
    /\ Len(last.out[1].Children) = 2

\* the place of the row of id in the order of creation
CreatedPos(id) == CHOOSE k \in 1..Len(created) : created[k].id = id

\* C26: in the forest of a Tree the roots, and the children of every node, are
\* in the order in which the rows were created, also when the rows have the
\* same created_at
SiblingsInCreationOrder ==
    (last.op = "Tree" /\ last.err = ErrNone) =>
        LET flat == Flatten(last.out, None)
        IN  \A j, k \in 1..Len(flat) :
                (j < k /\ flat[j][2] = flat[k][2])
                    => CreatedPos(flat[j][1]) < CreatedPos(flat[k][1])

\* the same for nodes whose rows have different created_at
SiblingsInTimestampOrder ==
    (last.op = "Tree" /\ last.err = ErrNone) =>
        LET flat == Flatten(last.out, None)
        IN  \A j, k \in 1..Len(flat) :
                (/\ j < k
                 /\ flat[j][2] = flat[k][2]
                 /\ last.before[flat[j][1]].created_at # last.before[flat[k][1]].created_at)
                    => CreatedPos(flat[j][1]) < CreatedPos(flat[k][1])

\* the rows that a ListIssues with the arguments of `last` is to return
AskedList ==
    {id \in DOMAIN last.before :
        /\ TrimSpace(last.projectPrefix) # <<>> => PrefixChars(id) = AskedPrefix
        /\ last.state # None => last.before[id].state = last.state[1]}

\* C27: ListIssues with a state that is none of the five returns invalid
\* input; otherwise it succeeds and returns, each once, exactly the rows
\* whose prefix is the prefix given (if one is given) and whose state is the
\* state given (if one is given), by created_at and then by id, ascending
ListExact ==
    last.op = "ListIssues" =>
        IF last.state # None /\ last.state[1] \notin AllStates
        THEN last.err = ErrInvalidInput
        ELSE /\ last.err = ErrNone
             /\ {last.out[i].ID : i \in 1..Len(last.out)} = AskedList
             /\ Len(last.out) = Cardinality(AskedList)
             /\ \A i \in 1..Len(last.out) : last.out[i] = scanIssue(last.before, last.out[i].ID)
             /\ \A i, j \in 1..Len(last.out) :
                    i < j => \/ last.out[i].CreatedAt < last.out[j].CreatedAt
                             \/ /\ last.out[i].CreatedAt = last.out[j].CreatedAt
                                /\ IDLess(last.out[i].ID, last.out[j].ID)

\* a CreateIssue has committed a row with this id
EverCreated(id) == \E k \in 1..Len(created) : created[k].id = id

\* C28: every row that a CreateIssue committed is in the table ever after,
\* with the category it was created with; GetIssue returns not found exactly
\* when no CreateIssue has committed a row with the id it is given (spaces
\* around it put aside), and otherwise succeeds and returns that id and the
\* category of the creation
NeverRemoved ==
    /\ \A k \in 1..Len(created) :
           /\ created[k].id \in DOMAIN store
           /\ store[created[k].id].category = created[k].category
    /\ last.op = "GetIssue" =>
           /\ last.err \in {ErrNone, ErrNotFound}
           /\ last.err = ErrNotFound <=> ~EverCreated(TrimSpace(last.id))
           /\ last.err = ErrNone =>
                  /\ last.out.ID = TrimSpace(last.id)
                  /\ last.out.Category = created[CreatedPos(last.out.ID)].category

\* GetIssue found a row that was canceled after its creation, while another
\* row was created later
NeverRemovedWitness ==
    /\ last.op = "GetIssue"
    /\ last.err = ErrNone
    /\ last.out.State = StateCanceled
    /\ last.out.Version > 1
    /\ Len(created) > 1

\* ------------------------------------------------- properties of the locks
\* the write lock is held only by a process inside a transaction that has
\* written and not committed: no call that has returned, failed or was
\* abandoned holds it
LockOnlyInsideWrite ==
    \A p \in Procs :
        lock = p => txs[p].phase = "open" /\ txs[p].step = "write"

\* C29: under fair scheduling every CreateIssue, TransitionState, SetParent
\* and SetBlockedBy that has begun returns, with a commit or with an error
\* (a wait for the write lock past busy_timeout is a store error), and a
\* call that has returned or was abandoned holds no lock
NoIndefiniteBlocking ==
    /\ [](LockOnlyInsideWrite)
    /\ \A p \in Procs : (txs[p].phase = "open") ~> (txs[p].phase = "returned")

\* a process was killed after its write and before its commit, another
\* process whose snapshot was current had given up the wait for the lock
\* with a store error, and the lock is free
NoIndefiniteBlockingWitness ==
    \E p, q \in Procs :
        /\ txs[q].phase = "returned"
        /\ txs[q].err = ErrKilled
        /\ txs[q].step = "write"
        /\ txs[p].phase = "returned"
        /\ txs[p].err = ErrBusy
        /\ txs[p].snap = txs[p].before
        /\ lock = 0

\* ------------------------------------------ properties of the configuration
\* the names of a rooted path, from the root down
Elems(path) == SelectSeq(Split(path, "/"), LAMBDA e : e # <<>>)

\* the rooted path of the names
PathOf(elems) == <<"/">> \o JoinSlash(elems)

\* the directories of the walk of the returned Discover are its start
\* directory (level 0) and the directories above it, up to the root
Levels == 0..Len(Elems(last.startDir))
Up(k) == SubSeq(Elems(last.startDir), 1, Len(Elems(last.startDir)) - k)

\* what the file system holds under the name itconfig at level k
At(k) == Entry(last.files, PathOf(Append(Up(k), FileName)))

\* level k is the nearest level with a file itconfig, and Stat has failed at
\* no nearer level
NearestFile(k) ==
    /\ At(k).kind = "file"
    /\ \A j \in Levels : j < k => At(j).kind \in {"absent", "dir"}

\* line l of a configuration file is neither blank nor a comment
Effective(l) == TrimSpace(l) # <<>> /\ ~HasPrefix(TrimSpace(l), <<"#">>)

KeyOf(l) == TrimSpace(ToLower(Cut(TrimSpace(l), "=").before))
ValueOf(l) == TrimSpace(Cut(TrimSpace(l), "=").after)

KeyDB == <<"d", "b">>
KeyProject == <<"p", "r", "o", "j", "e", "c", "t">>

\* the places of the lines with key in the lines
LinesOf(lines, key) ==
    {i \in 1..Len(lines) : Effective(lines[i]) /\ KeyOf(lines[i]) = key}

\* the value of the last line with key, nothing when there is none
LastValue(lines, key) ==
    IF LinesOf(lines, key) = {} THEN <<>>
    ELSE ValueOf(lines[CHOOSE i \in LinesOf(lines, key) :
                           \A j \in LinesOf(lines, key) : j <= i])

\* line l is one that parseFile refuses, a project value being taken
\* without regard to case
Refused(l) ==
    /\ Effective(l)
    /\ \/ ~Cut(TrimSpace(l), "=").found
       \/ KeyOf(l) \notin {KeyDB, KeyProject}
       \/ KeyOf(l) = KeyDB /\ ValueOf(l) = <<>>
       \/ KeyOf(l) = KeyProject /\ ~projectPrefixRe(ToLower(ValueOf(l)))

\* the returned Discover has found the file at level k: it fails exactly on
\* a file that cannot be read or has a refused line, and otherwise returns
\* the path of the file, the last db (a relative one resolved against the
\* directory of the file) and the last project in lower case
ParsedFrom(k) ==
    LET lines == Split(At(k).content, "\n")
        db == LastValue(lines, KeyDB)
    IN  /\ last.err # ErrNone <=>
               (~At(k).readable \/ \E i \in 1..Len(lines) : Refused(lines[i]))
        /\ last.err # ErrNone => last.cfg = None
        /\ last.err = ErrNone =>
               /\ last.cfg # None
               /\ last.cfg[1].Path = PathOf(Append(Up(k), FileName))
               /\ last.cfg[1].Project = ToLower(LastValue(lines, KeyProject))
               /\ last.cfg[1].DBPath =
                      IF db = <<>> \/ IsAbs(db) THEN db
                      ELSE PathOf(cleanLoop(Up(k) \o Split(db, "/"), TRUE, <<>>))

\* what a returned Discover has returned
DiscoverResult ==
    (last.op = "Discover" /\ last.phase = "returned") =>
        /\ (\A k \in Levels : At(k).kind \in {"absent", "dir"})
               => last.cfg = None /\ last.err = ErrNone
        /\ \A k \in Levels : NearestFile(k) => ParsedFrom(k)
        /\ \A k \in Levels :
               (At(k).kind = "denied" /\ \A j \in Levels : j < k => At(j).kind \in {"absent", "dir"})
                   => last.cfg = None /\ last.err = "read"

SameBut(x, cols) ==
    \A c \in DOMAIN store[x] : c \notin cols => store[x][c] = last.before[x][c]

\* C31: a successful TransitionState changes only state, version,
\* last_updated_at and closed_at of its row, a successful SetParent only
\* parent_id, version and last_updated_at, a successful SetBlockedBy only
\* blocked_by, version and last_updated_at, a successful CreateIssue only
\* adds one row; no call changes another row, removes a row or changes the
\* category, title, body or created_at of a row, and GetIssue, ListIssues and
\* Tree change nothing
FrameOfOperations ==
    /\ last.op \in {"GetIssue", "ListIssues", "Tree"} => store = last.before
    /\ last.op \in {"TransitionState", "SetParent", "SetBlockedBy"} =>
           /\ DOMAIN store = DOMAIN last.before
           /\ \A x \in DOMAIN store :
                  /\ x # last.id => store[x] = last.before[x]
                  /\ SameBut(x, {"state", "parent_id", "blocked_by", "version",
                                 "last_updated_at", "closed_at"})
           /\ (last.err = ErrNone /\ last.op = "TransitionState")
                  => SameBut(last.id, {"state", "version", "last_updated_at", "closed_at"})
           /\ (last.err = ErrNone /\ last.op = "SetParent")
                  => SameBut(last.id, {"parent_id", "version", "last_updated_at"})
           /\ (last.err = ErrNone /\ last.op = "SetBlockedBy")
                  => SameBut(last.id, {"blocked_by", "version", "last_updated_at"})
    /\ last.op = "CreateIssue" =>
           /\ \A x \in DOMAIN last.before : x \in DOMAIN store /\ store[x] = last.before[x]
           /\ IF last.err = ErrNone
              THEN /\ last.id \notin DOMAIN last.before
                   /\ DOMAIN store = DOMAIN last.before \cup {last.id}
              ELSE store = last.before

\* a TransitionState has changed the state of a row with a parent, and the
\* row of the parent is as it was
FrameOfOperationsWitness ==
    /\ Returned("TransitionState")
    /\ last.err = ErrNone
    /\ RowAfter.state # RowBefore.state
    /\ RowAfter.version = RowBefore.version + 1
    /\ RowAfter.parent_id # None
    /\ RowAfter.parent_id = RowBefore.parent_id
    /\ store[RowAfter.parent_id[1]] = last.before[RowAfter.parent_id[1]]

\* ------------------------------------- properties of the order of the checks
\* an entry of the raw list, trimmed and in lower case, is not blank and is
\* not a well-formed id
NamesMalformed(raw) ==
    \E i \in 1..Len(raw) :
        ToLower(TrimSpace(raw[i])) # <<>> /\ ~issueIDRe(ToLower(TrimSpace(raw[i])))

\* C32: a SetBlockedBy on a stored row, or a CreateIssue of a project with
\* valid arguments, whose raw blocked_by list has a malformed id or the id of
\* the holder fails with invalid input, whatever the other entries of the
\* list are
RejectionsTakePrecedence ==
    /\ (Returned("SetBlockedBy")
            /\ (NamesMalformed(last.blockedBy) \/ NamesHolder(last.blockedBy, last.id)))
           => last.err = ErrInvalidInput
    /\ (last.op = "CreateIssue" /\ NamesMalformed(last.in.blockedBy))
           => last.err = ErrInvalidInput

\* the error of the first check that the returned TransitionState fails, the
\* checks taken in the order: target state known, row stored, edge listed
\* (or no change of state), dependencies done when the target is
\* in_progress, expected version current
FirstFailingCheck ==
    IF last.to \notin AllStates THEN ErrInvalidInput
    ELSE IF last.id \notin DOMAIN last.before THEN ErrNotFound
    ELSE IF RowBefore.state # last.to /\ <<RowBefore.state, last.to>> \notin ListedEdges
    THEN ErrInvalidStateTransition
    ELSE IF last.to = StateInProgress /\ ~DepsDone(RowBefore, last.before)
    THEN ErrInvalidInput
    ELSE IF ~VersionCurrent THEN ErrConflict
    ELSE ErrNone

\* C33: a TransitionState returns the error of the first of its checks that
\* fails, in that order; so a call with an edge that is not listed and a
\* stale expected version returns invalid state transition, and a call to
\* in_progress with a dependency not done and a stale expected version
\* returns invalid input
ChecksInOrder ==
    last.op = "TransitionState" =>
        /\ last.err = FirstFailingCheck
        /\ (StaleCall /\ RowBefore.state # last.to
                /\ <<RowBefore.state, last.to>> \notin ListedEdges)
               => last.err = ErrInvalidStateTransition
        /\ (StaleCall /\ last.to = StateInProgress
                /\ <<RowBefore.state, last.to>> \in ListedEdges
                /\ ~DepsDone(RowBefore, last.before))
               => last.err = ErrInvalidInput

\* a TransitionState to in_progress of a row with a dependency not done, made
\* with a stale expected version, has returned invalid input
ChecksInOrderWitness ==
    /\ Returned("TransitionState")
    /\ StaleCall
    /\ last.to = StateInProgress
    /\ <<RowBefore.state, last.to>> \in ListedEdges
    /\ ~DepsDone(RowBefore, last.before)
    /\ last.err = ErrInvalidInput

\* ------------------------------------------ properties of the parent relation
\* the parent of the row of id in the table, None for a row without one
ParentOf(id) == store[id].parent_id

\* C34: in every committed state the parent of every row is a row, the
\* parent chain of every row ends at a row without a parent after at most 2
\* steps, and no row is its own parent or the parent of its parent
ParentChainShort ==
    \A id \in DOMAIN store :
        \/ ParentOf(id) = None
        \/ /\ ParentOf(id)[1] \in DOMAIN store
           /\ ParentOf(id)[1] # id
           /\ \/ ParentOf(ParentOf(id)[1]) = None
              \/ /\ ParentOf(ParentOf(id)[1])[1] \in DOMAIN store
                 /\ ParentOf(ParentOf(id)[1])[1] # id
                 /\ ParentOf(ParentOf(ParentOf(id)[1])[1]) = None

\* a SetParent on a task has succeeded, and the chain of the task has two
\* steps: its workstream, then the project of the workstream
ParentChainShortWitness ==
    /\ Returned("SetParent")
    /\ last.err = ErrNone
    /\ RowAfter.category = CategoryTask
    /\ RowAfter.version = RowBefore.version + 1
    /\ ParentOf(ParentOf(last.id)[1]) # None
    /\ ParentOf(ParentOf(ParentOf(last.id)[1])[1]) = None

\* ----------------------------------------------- properties of the life cycle
\* C35: a row comes into the table in todo; a row that a call has put into
\* done was in_progress before the call; a row that a call has put into
\* in_progress had every dependency done before the call; a row that was
\* done or canceled and has changed its state is in todo; so a row in done
\* has at least the two mutations into in_progress and into done behind it
DoneOnlyFromInProgress ==
    /\ last.op \in {"CreateIssue", "TransitionState", "SetParent", "SetBlockedBy"} =>
           \A x \in DOMAIN store :
               IF x \notin DOMAIN last.before THEN store[x].state = StateTodo
               ELSE /\ (store[x].state = StateDone /\ last.before[x].state # StateDone)
                           => last.before[x].state = StateInProgress
                    /\ (store[x].state = StateInProgress
                            /\ last.before[x].state # StateInProgress)
                           => /\ last.before[x].state \in {StateTodo, StateBlocked}
                              /\ DepsDone(last.before[x], last.before)
                    /\ (last.before[x].state \in {StateDone, StateCanceled}
                            /\ store[x].state # last.before[x].state)
                           => store[x].state = StateTodo
    /\ \A x \in DOMAIN store :
           /\ store[x].state = StateInProgress => mutations[x] >= 1
           /\ store[x].state = StateDone => mutations[x] >= 2

\* a TransitionState has put a row that was in_progress into done
DoneOnlyFromInProgressWitness ==
    /\ Returned("TransitionState")
    /\ last.err = ErrNone
    /\ RowBefore.state = StateInProgress
    /\ RowAfter.state = StateDone
    /\ mutations[last.id] >= 2

\* ------------------------------------------- properties of dependency cycles
\* rows x and y of table st are each in the blocked_by list of the other
MutualPair(x, y, st) ==
    /\ x \in DOMAIN st
    /\ y \in DOMAIN st
    /\ x # y
    /\ \E i \in 1..Len(st[x].blocked_by) : st[x].blocked_by[i] = y
    /\ \E i \in 1..Len(st[y].blocked_by) : st[y].blocked_by[i] = x

\* the row of the returned call was, before the call, in a pair of rows
\* blocked by each other of which neither was done
InOpenCycle ==
    \E y \in DOMAIN last.before :
        /\ MutualPair(last.id, y, last.before)
        /\ last.before[y].state # StateDone
        /\ RowBefore.state # StateDone

\* C36 as stated: while two rows that are not done are blocked by each other,
\* no TransitionState of either of them to in_progress or to done succeeds
NoProgressInCycle ==
    (Returned("TransitionState") /\ InOpenCycle
         /\ last.to \in {StateInProgress, StateDone})
        => last.err # ErrNone

\* C36: while two rows that are not done are blocked by each other, no
\* TransitionState of either of them to in_progress succeeds, and none to
\* done of a row that is not in_progress; the two rows stay blocked by each
\* other through every call but a successful SetBlockedBy
NoProgressInCycleButFromInProgress ==
    /\ (Returned("TransitionState") /\ InOpenCycle)
           => /\ last.to = StateInProgress => (last.err # ErrNone /\ store = last.before)
              /\ (last.to = StateDone /\ RowBefore.state # StateInProgress)
                     => (last.err # ErrNone /\ store = last.before)
    /\ (last.op \in {"CreateIssue", "TransitionState", "SetParent"}
            \/ (last.op = "SetBlockedBy" /\ last.err # ErrNone))
           => \A x, y \in DOMAIN last.before :
                  MutualPair(x, y, last.before) => MutualPair(x, y, store)

\* a TransitionState to in_progress of a todo row of such a pair has failed
\* with invalid input, and the pair is as it was
NoProgressInCycleWitness ==
    /\ Returned("TransitionState")
    /\ InOpenCycle
    /\ last.to = StateInProgress
    /\ RowBefore.state = StateTodo
    /\ last.err = ErrInvalidInput
    /\ \E y \in DOMAIN store : MutualPair(last.id, y, store)
====
